---- MODULE Spec2Model ----
(***************************************************************************)
(* Migration readiness assessment (uc5_migration_readiness.py):            *)
(* MigrationReadinessAssessor.generate_assessment_report and the analyzers *)
(* and scorers it calls, as a state machine over one assessment run, and  *)
(* over several runs called from parallel threads (SpecPar).               *)
(*                                                                         *)
(* Python floats are modelled as exact rationals [num, den] in lowest      *)
(* terms (den > 0); IEEE rounding is not modelled.                         *)
(***************************************************************************)
EXTENDS Integers, Sequences, FiniteSets, TLC

VARIABLES
    db_id,               \* what DB_ID(database_name) is on the server: None or Some(id)
    fetched,             \* history: the rows each snapshot query returned
    pc,                  \* position in generate_assessment_report
    error,               \* the exception that left the call, or "none"
    queries,             \* statements executed on self.cursor, in order
    failed,              \* history: <<query, cause>> of each query that raised
    assessment_results,  \* the report dict under construction (key -> value)
    locals,              \* readiness_score / migration_phases once computed
    output_file,         \* <<>> while no file exists, <<document>> once dumped
    returned,            \* <<>> until the call returns, <<result>> afterwards
    callers,             \* the calls of generate_assessment_report running in parallel threads
    cursors,             \* assessor object -> result set pending on its self.cursor
    files,               \* path -> document, for the files the parallel calls have dumped
    tables_df,           \* generate_migration_order: the rows of get_table_metadata
    fk_df,               \* generate_migration_order: the rows of the foreign-key query
    dependencies,        \* generate_migration_order: the dict, as its items in key order
    migration_waves,     \* generate_migration_order: the waves built so far
    processed,           \* generate_migration_order: the set of tables placed in a wave
    order_pc             \* position in generate_migration_order

\* the state of the parallel calls
parVars == <<callers, cursors, files>>

\* the state of generate_migration_order (use_case_9_migration.py)
orderVars == <<tables_df, fk_df, dependencies, migration_waves, processed, order_pc>>

vars == <<db_id, fetched, pc, error, queries, failed, assessment_results, locals, output_file, returned,
          callers, cursors, files,
          tables_df, fk_df, dependencies, migration_waves, processed, order_pc>>

---------------------------------------------------------------------------
(* Bounds of the model *)

\* longest procedure list fetched in one assessment run
MaxProcs == 2
\* longest column list fetched in one assessment run
MaxCols == 3
\* longest index list fetched in one assessment run
MaxIdx == 1
\* largest count of triggers / user-defined types in a snapshot row
MaxSmallCount == 3
\* largest procedures_with_issues / total_procedures / issue count /
\* total_columns_analyzed handed directly to calculate_migration_score
MaxTerm == 3
\* longest index list handed to analyze_indexes on its own
MaxWideIdx == 2
\* number of threads calling generate_assessment_report in parallel
MaxThreads == 2
\* largest fill factor of an index (sys.indexes.fill_factor is a percentage)
MaxFillFactor == 100
\* number of table names the foreign keys and the table list draw from
MaxTables == 4
\* largest number of foreign-key rows
MaxFks == 3

---------------------------------------------------------------------------
(* Numbers: int and float values as rationals *)

Abs(x) == IF x < 0 THEN -x ELSE x

RECURSIVE Gcd(_, _)
Gcd(a, b) == IF b = 0 THEN a ELSE Gcd(b, a % b)

\* the number n/d (d > 0), in lowest terms
Rat(n, d) == LET g == Gcd(Abs(n), d) IN [num |-> n \div g, den |-> d \div g]

Num(i) == Rat(i, 1)

\* a / b on ints: Python true division
Div(a, b) == Rat(a, b)

RAdd(x, y) == Rat(x.num * y.den + y.num * x.den, x.den * y.den)
RSub(x, y) == Rat(x.num * y.den - y.num * x.den, x.den * y.den)
RMul(x, y) == Rat(x.num * y.num, x.den * y.den)
RLt(x, y) == x.num * y.den < y.num * x.den
RLe(x, y) == x.num * y.den <= y.num * x.den
RGt(x, y) == RLt(y, x)

\* min(x, y) / max(x, y): Python returns the first argument on a tie
RMin(x, y) == IF RLt(y, x) THEN y ELSE x
RMax(x, y) == IF RGt(y, x) THEN y ELSE x

---------------------------------------------------------------------------
(* Text: str values as sequences of one-character strings *)

LowerCase == <<"a","b","c","d","e","f","g","h","i","j","k","l","m","n","o","p","q","r","s","t","u","v","w","x","y","z">>
UpperCase == <<"A","B","C","D","E","F","G","H","I","J","K","L","M","N","O","P","Q","R","S","T","U","V","W","X","Y","Z">>

UpperChar(c) ==
    IF \E i \in 1..Len(LowerCase) : LowerCase[i] = c
    THEN UpperCase[CHOOSE i \in 1..Len(LowerCase) : LowerCase[i] = c]
    ELSE c

\* s.upper()
StrUpper(s) == [i \in 1..Len(s) |-> UpperChar(s[i])]

\* pat in s
Contains(pat, s) ==
    \E i \in 0..(Len(s) - Len(pat)) : \A j \in 1..Len(pat) : s[i + j] = pat[j]

\* None and a present value v
None == <<>>
Some(v) == <<v>>

---------------------------------------------------------------------------
(* assess_schema_complexity / categorize_complexity *)

CountCategories ==
    {"tables", "views", "stored_procedures", "triggers",
     "user_defined_types", "xml_schemas", "clr_assemblies"}

\* variant: the thresholds taken inclusively (<=)
categorize_complexity_Inclusive(score) ==
    IF RLe(score, Num(30)) THEN "LOW"
    ELSE IF RLe(score, Num(60)) THEN "MEDIUM"
    ELSE IF RLe(score, Num(80)) THEN "HIGH"
    ELSE "VERY_HIGH"

categorize_complexity(score) ==
    IF RLt(score, Num(30)) THEN "LOW"
    ELSE IF RLt(score, Num(60)) THEN "MEDIUM"
    ELSE IF RLt(score, Num(80)) THEN "HIGH"
    ELSE "VERY_HIGH"

\* the dict built from the fetched row
Details(row) ==
    [tables |-> row.table_count,
     views |-> row.view_count,
     stored_procedures |-> row.sp_count,
     triggers |-> row.trigger_count,
     user_defined_types |-> row.udt_count,
     xml_schemas |-> row.xml_schema_count,
     clr_assemblies |-> row.clr_assembly_count]

\* variant: the trigger contribution left uncapped
Contributions_TriggersUncapped(details) ==
    <<RMin(Div(details.tables, 10), Num(20)),
      RMin(Div(details.stored_procedures, 5), Num(25)),
      Num(details.triggers * 5),
      RMin(Num(details.user_defined_types * 10), Num(20)),
      RMin(Num(details.clr_assemblies * 20), Num(20))>>

\* the five capped contributions, in the order the code adds them
Contributions(details) ==
    <<RMin(Div(details.tables, 10), Num(20)),
      RMin(Div(details.stored_procedures, 5), Num(25)),
      RMin(Num(details.triggers * 5), Num(15)),
      RMin(Num(details.user_defined_types * 10), Num(20)),
      RMin(Num(details.clr_assemblies * 20), Num(20))>>

RECURSIVE Accumulate(_, _, _)
\* complexity_score after adding terms[i..] to acc
Accumulate(acc, terms, i) ==
    IF i > Len(terms) THEN acc
    ELSE Accumulate(RAdd(acc, terms[i]), terms, i + 1)

\* the running sum complexity_score before the clamp
ComplexitySum(details) == Accumulate(Num(0), Contributions(details), 1)

\* what assess_schema_complexity returns for a fetched row
assess_schema_complexity(row) ==
    LET details == Details(row)
        complexity_score == ComplexitySum(details)
    IN  [complexity_score |-> RMin(complexity_score, Num(100)),
         complexity_level |-> categorize_complexity(complexity_score),
         details |-> details]

\* object-count rows the snapshot query may return (wide domain)
CountRows ==
    [table_count : {0, 15, 99, 100, 200, 1000},
     view_count : {0, 7},
     sp_count : {0, 3, 125, 1000},
     trigger_count : (0..MaxSmallCount) \cup {1000},
     udt_count : (0..MaxSmallCount) \cup {1000},
     xml_schema_count : {0, 4},
     clr_assembly_count : {0, 1, 5, 1000}]

\* object-count rows used when the whole report is generated
ReportCountRows ==
    [table_count : {0, 200},
     view_count : {7},
     sp_count : {0, 125},
     trigger_count : {0, 1, MaxSmallCount},
     udt_count : {0, 2},
     xml_schema_count : {4},
     clr_assembly_count : {0, 1, 5}]

---------------------------------------------------------------------------
(* analyze_stored_procedures *)

\* variant: TRY alone or CATCH alone is enough
PatternFlags_TryOrCatch(sp_def) ==
    <<Contains(<<"C","U","R","S","O","R">>, sp_def),
      Contains(<<"R","A","I","S","E","R","R","O","R">>, sp_def),
      Contains(<<"T","R","Y">>, sp_def) \/ Contains(<<"C","A","T","C","H">>, sp_def),
      Contains(<<"E","X","E","C","(">>, sp_def)
          \/ Contains(<<"E","X","E","C","U","T","E","(">>, sp_def),
      Contains(<<" ","O","U","T","P","U","T"," ">>, <<" ">> \o sp_def \o <<" ">>),
      Contains(<<"@","@">>, sp_def)>>

\* the six lexical tests on the upper-cased body, in source order
PatternFlags(sp_def) ==
    <<Contains(<<"C","U","R","S","O","R">>, sp_def),
      Contains(<<"R","A","I","S","E","R","R","O","R">>, sp_def),
      Contains(<<"T","R","Y">>, sp_def) /\ Contains(<<"C","A","T","C","H">>, sp_def),
      Contains(<<"E","X","E","C","(">>, sp_def)
          \/ Contains(<<"E","X","E","C","U","T","E","(">>, sp_def),
      Contains(<<" ","O","U","T","P","U","T"," ">>, <<" ">> \o sp_def \o <<" ">>),
      Contains(<<"@","@">>, sp_def)>>

IssueStrings ==
    <<"Uses cursors (may need refactoring)",
      "Uses RAISERROR (PostgreSQL uses RAISE)",
      "Uses TRY-CATCH (PostgreSQL uses EXCEPTION blocks)",
      "Uses dynamic SQL",
      "Uses OUTPUT parameters",
      "Uses global variables (@@)">>

FeatureKeys ==
    <<"cursors", "raiserror", "try_catch", "dynamic_sql", "output_params", "global_vars">>

\* variant: counter[key] = 1
Increment_Presence(counter, key) == counter @@ (key :> 1)

\* Counter: counter[key] += 1
Increment(counter, key) ==
    IF key \in DOMAIN counter
    THEN [counter EXCEPT ![key] = @ + 1]
    ELSE counter @@ (key :> 1)

\* an empty Counter / dict
EmptyDict == [k \in {} |-> 0]

\* generate_assessment_report is called by one thread only
NoCallers == callers = EmptyDict /\ cursors = EmptyDict /\ files = EmptyDict

\* generate_migration_order is not running
NoOrder ==
    /\ tables_df = <<>>
    /\ fk_df = {}
    /\ dependencies = <<>>
    /\ migration_waves = <<>>
    /\ processed = {}
    /\ order_pc = "idle"

\* (row.definition or '').upper()
SpDef(row) == StrUpper(IF row.definition = None THEN <<>> ELSE row.definition[1])

RECURSIVE MatchPatterns(_, _, _, _)
\* the body of one loop pass from test i on: issues appended, counters incremented
MatchPatterns(flags, i, issues, incompatible_features) ==
    IF i > Len(flags) THEN [issues |-> issues, incompatible_features |-> incompatible_features]
    ELSE IF flags[i]
         THEN MatchPatterns(flags, i + 1, Append(issues, IssueStrings[i]),
                            Increment(incompatible_features, FeatureKeys[i]))
         ELSE MatchPatterns(flags, i + 1, issues, incompatible_features)

\* variant: every procedure is retained
KeepFinding_All(issues) == TRUE

\* if issues:
KeepFinding(issues) == issues # <<>>

\* variant: HIGH from three issues on
ComplexityTag_FromThree(issues) == IF Len(issues) >= 3 THEN "HIGH" ELSE "MEDIUM"

\* 'HIGH' if len(issues) > 3 else 'MEDIUM'
ComplexityTag(issues) == IF Len(issues) > 3 THEN "HIGH" ELSE "MEDIUM"

RECURSIVE ProcedureLoop(_, _, _, _)
\* the for loop over cursor.fetchall(), from row i on
ProcedureLoop(rows, i, sp_analysis, incompatible_features) ==
    IF i > Len(rows)
    THEN [sp_analysis |-> sp_analysis, incompatible_features |-> incompatible_features]
    ELSE LET row == rows[i]
             m == MatchPatterns(PatternFlags(SpDef(row)), 1, <<>>, incompatible_features)
         IN  IF KeepFinding(m.issues)
             THEN ProcedureLoop(rows, i + 1,
                      Append(sp_analysis,
                          [name |-> row.name,
                           created |-> row.create_date,
                           modified |-> row.modify_date,
                           issues |-> m.issues,
                           complexity |-> ComplexityTag(m.issues)]),
                      m.incompatible_features)
             ELSE ProcedureLoop(rows, i + 1, sp_analysis, m.incompatible_features)

\* variant: total_procedures counts every fetched row
analyze_stored_procedures_CountsAll(rows) ==
    LET r == ProcedureLoop(rows, 1, <<>>, EmptyDict)
    IN  [total_procedures |-> Len(rows),
         procedures_with_issues |-> Len(r.sp_analysis),
         incompatible_features |-> r.incompatible_features,
         detailed_analysis |-> r.sp_analysis]

\* what analyze_stored_procedures returns for the fetched rows
analyze_stored_procedures(rows) ==
    LET r == ProcedureLoop(rows, 1, <<>>, EmptyDict)
    IN  [total_procedures |-> Len(r.sp_analysis),
         procedures_with_issues |-> Len(r.sp_analysis),
         incompatible_features |-> r.incompatible_features,
         detailed_analysis |-> r.sp_analysis]

\* sequences over S of length at most n
SeqsUpTo(S, n) == UNION {[1..k -> S] : k \in 0..n}

\* procedure definitions used when the whole report is generated:
\* 'select 1' (no pattern) and 'Cursor c' (cursor pattern)
ReportDefinitions ==
    {Some(<<"s","e","l","e","c","t"," ","1">>),
     Some(<<"C","u","r","s","o","r"," ","c">>)}

\* procedure definitions used when analyze_stored_procedures is examined on
\* its own: NULL, the empty text, and bodies around each lexical test
WideDefinitionList ==
    <<None,
      Some(<<>>),
      Some(<<"s","e","l","e","c","t"," ","1">>),
      Some(<<"C","u","r","s","o","r"," ","c">>),
      Some(<<"e","x","e","c","(","@","s",")"," ","c","u","r","s","o","r">>),
      Some(<<"c","u","r","s","o","r"," ","r","a","i","s","e","r","r","o","r"," ","t","r","y"," ","c","a","t","c","h"," ","e","x","e","c","("," ","@","x"," ","o","u","t","p","u","t"," ","@","@","e">>),
      Some(<<"c","u","r","s","o","r"," ","r","a","i","s","e","r","r","o","r"," ","@","@","e">>),
      Some(<<"c","u","r","s","o","r"," ","r","a","i","s","e","r","r","o","r"," ","@","@","e"," ","E","x","e","c","u","t","e","(">>),
      Some(<<"e","n","t","r","y">>),
      Some(<<"C","a","t","c","h"," ","T","r","y">>),
      Some(<<"e","x","e","c"," ","s","p">>),
      Some(<<"@","x"," ","O","U","T","P","U","T">>),
      Some(<<"@","x"," ","o","u","t","p","u","t",",">>),
      Some(<<"c","u","r","s","o","r"," ","c","u","r","s","o","r">>)>>

WideDefinitions == {WideDefinitionList[i] : i \in DOMAIN WideDefinitionList}

\* row lists of sys.procedures joined to their definitions; names are the
\* procedures' ordinals, the dates are opaque
ProcedureRows(definitions, n) ==
    {[i \in 1..Len(ds) |->
        [name |-> i, definition |-> ds[i], create_date |-> "created", modify_date |-> "modified"]]
     : ds \in SeqsUpTo(definitions, n)}

---------------------------------------------------------------------------
(* analyze_data_types *)

\* type_mapping: key -> (target, alternate target, note); a note is kept as
\* its words
type_mapping == {
    [key |-> <<"N","V","A","R","C","H","A","R">>,
     value |-> <<"VARCHAR", "TEXT", <<"Compatible", "with", "adjustments">>>>],
    [key |-> <<"V","A","R","C","H","A","R">>,
     value |-> <<"VARCHAR", "TEXT", <<"Direct", "compatibility">>>>],
    [key |-> <<"I","N","T">>,
     value |-> <<"INTEGER", "INT", <<"Direct", "compatibility">>>>],
    [key |-> <<"B","I","G","I","N","T">>,
     value |-> <<"BIGINT", "BIGINT", <<"Direct", "compatibility">>>>],
    [key |-> <<"S","M","A","L","L","I","N","T">>,
     value |-> <<"SMALLINT", "SMALLINT", <<"Direct", "compatibility">>>>],
    [key |-> <<"T","I","N","Y","I","N","T">>,
     value |-> <<"SMALLINT", "SMALLINT", <<"PostgreSQL", "minimum", "is", "SMALLINT">>>>],
    [key |-> <<"B","I","T">>,
     value |-> <<"BOOLEAN", "BOOLEAN", <<"Direct", "compatibility">>>>],
    [key |-> <<"D","A","T","E","T","I","M","E">>,
     value |-> <<"TIMESTAMP", "TIMESTAMP", <<"Compatible">>>>],
    [key |-> <<"D","A","T","E","T","I","M","E","2">>,
     value |-> <<"TIMESTAMP", "TIMESTAMP", <<"Compatible">>>>],
    [key |-> <<"D","A","T","E">>,
     value |-> <<"DATE", "DATE", <<"Direct", "compatibility">>>>],
    [key |-> <<"T","I","M","E">>,
     value |-> <<"TIME", "TIME", <<"Direct", "compatibility">>>>],
    [key |-> <<"D","E","C","I","M","A","L">>,
     value |-> <<"DECIMAL", "NUMERIC", <<"Direct", "compatibility">>>>],
    [key |-> <<"N","U","M","E","R","I","C">>,
     value |-> <<"NUMERIC", "NUMERIC", <<"Direct", "compatibility">>>>],
    [key |-> <<"M","O","N","E","Y">>,
     value |-> <<"DECIMAL(19,4)", "NUMERIC", <<"Requires", "explicit", "mapping">>>>],
    [key |-> <<"U","N","I","Q","U","E","I","D","E","N","T","I","F","I","E","R">>,
     value |-> <<"UUID", "UUID", <<"Requires", "extension">>>>],
    [key |-> <<"X","M","L">>,
     value |-> <<"XML", "XML", <<"Direct", "compatibility">>>>],
    [key |-> <<"V","A","R","B","I","N","A","R","Y">>,
     value |-> <<"BYTEA", "BYTEA", <<"Compatible">>>>],
    [key |-> <<"I","M","A","G","E">>,
     value |-> <<"BYTEA", "BYTEA", <<"Deprecated", "in", "SQL", "Server,", "use", "BYTEA">>>>],
    [key |-> <<"T","E","X","T">>,
     value |-> <<"TEXT", "TEXT", <<"Deprecated", "in", "SQL", "Server">>>>],
    [key |-> <<"N","T","E","X","T">>,
     value |-> <<"TEXT", "TEXT", <<"Deprecated", "in", "SQL", "Server">>>>]
    }

InTypeMapping(data_type) == \E e \in type_mapping : e.key = data_type
TypeMappingOf(data_type) == (CHOOSE e \in type_mapping : e.key = data_type).value

\* 'Requires' in note
RequiresIn(note) == \E i \in 1..Len(note) : note[i] = "Requires"

\* variant: the declared name is looked up as it is
DataTypeKey_AsDeclared(row) == row.data_type

\* data_type = row.data_type.upper()
DataTypeKey(row) == StrUpper(row.data_type)

RECURSIVE ColumnLoop(_, _, _, _)
\* the for loop over cursor.fetchall(), from row i on
ColumnLoop(rows, i, type_usage, compatibility_issues) ==
    IF i > Len(rows)
    THEN [type_usage |-> type_usage, compatibility_issues |-> compatibility_issues]
    ELSE LET row == rows[i]
             data_type == DataTypeKey(row)
             usage == Increment(type_usage, data_type)
         IN  IF ~InTypeMapping(data_type)
             THEN ColumnLoop(rows, i + 1, usage,
                      Append(compatibility_issues,
                          [table |-> row.table_name,
                           column |-> row.column_name,
                           type |-> data_type,
                           issue |-> "Unknown type mapping",
                           severity |-> "HIGH"]))
             ELSE IF RequiresIn(TypeMappingOf(data_type)[3])
             THEN ColumnLoop(rows, i + 1, usage,
                      Append(compatibility_issues,
                          [table |-> row.table_name,
                           column |-> row.column_name,
                           type |-> data_type,
                           postgresql_type |-> TypeMappingOf(data_type)[1],
                           note |-> TypeMappingOf(data_type)[3],
                           severity |-> "MEDIUM"]))
             ELSE ColumnLoop(rows, i + 1, usage, compatibility_issues)

\* variant: the number of distinct types
SumValues_Keys(counter) == Cardinality(DOMAIN counter)

RECURSIVE SumValues(_)
\* sum(counter.values())
SumValues(counter) ==
    IF DOMAIN counter = {} THEN 0
    ELSE LET k == CHOOSE x \in DOMAIN counter : TRUE
         IN  counter[k] + SumValues([x \in DOMAIN counter \ {k} |-> counter[x]])

\* what analyze_data_types returns for the fetched rows
analyze_data_types(rows) ==
    LET r == ColumnLoop(rows, 1, EmptyDict, <<>>)
    IN  [type_usage |-> r.type_usage,
         compatibility_issues |-> r.compatibility_issues,
         total_columns_analyzed |-> SumValues(r.type_usage)]

\* declared types used when the whole report is generated:
\* 'bigint' (mapped, silent) and 'Money' (mapped, note says Requires)
ReportTypes ==
    {<<"b","i","g","i","n","t">>, <<"M","o","n","e","y">>}

\* declared types used when analyze_data_types is examined on its own:
\* spellings of BIGINT, UNIQUEIDENTIFIER, MONEY and of a type the table lacks
WideTypeList ==
    <<<<"b","i","g","i","n","t">>,
      <<"B","I","G","I","N","T">>,
      <<"B","i","g","I","n","t">>,
      <<"u","n","i","q","u","e","i","d","e","n","t","i","f","i","e","r">>,
      <<"U","n","i","q","u","e","I","d","e","n","t","i","f","i","e","r">>,
      <<"M","o","n","e","y">>,
      <<"M","O","N","E","Y">>,
      <<"f","o","o","b","a","r","_","c","u","s","t","o","m","_","t","y","p","e">>,
      <<"F","O","O","B","A","R","_","C","U","S","T","O","M","_","T","Y","P","E">>,
      <<"i","n","t">>>>

WideTypes == {WideTypeList[i] : i \in DOMAIN WideTypeList}

\* row lists of the column query; columns are named by their ordinals
ColumnRows(types, n) ==
    {[i \in 1..Len(ts) |-> [table_name |-> "t", column_name |-> i, data_type |-> ts[i]]]
     : ts \in SeqsUpTo(types, n)}

---------------------------------------------------------------------------
(* analyze_indexes *)

\* variant: every value that is not None counts as set
TruthyInt_NotNone(x) == x # None

\* truthiness of an optional int / optional str
TruthyInt(x) == x # None /\ x[1] # 0
TruthyStr(x) == x # None /\ x[1] # ""

\* migration_notes of one index row; every note is a tuple of its parts
MigrationNotes(row) ==
    (IF row.type_desc = "CLUSTERED"
     THEN <<<<"Clustered index -> Map to primary key or regular index in PostgreSQL">>>>
     ELSE <<>>)
    \o (IF row.type_desc = "NONCLUSTERED COLUMNSTORE"
        THEN <<<<"Columnstore index -> Consider PostgreSQL BRIN or regular B-tree">>>>
        ELSE <<>>)
    \o (IF TruthyStr(row.included_columns)
        THEN <<<<"Has included columns -> PostgreSQL supports INCLUDE in indexes (PG11+)">>>>
        ELSE <<>>)
    \o (IF TruthyInt(row.fill_factor) /\ row.fill_factor[1] < 100
        THEN <<<<"Fill factor ", row.fill_factor[1], " -> Use FILLFACTOR in PostgreSQL">>>>
        ELSE <<>>)

RECURSIVE IndexLoop_OnlyNoted(_, _, _, _)
\* variant: an index without notes gets no finding
IndexLoop_OnlyNoted(rows, i, index_analysis, index_types) ==
    IF i > Len(rows)
    THEN [index_analysis |-> index_analysis, index_types |-> index_types]
    ELSE LET row == rows[i]
         IN  IndexLoop_OnlyNoted(rows, i + 1,
                 IF MigrationNotes(row) = <<>> THEN index_analysis
                 ELSE Append(index_analysis,
                          [table |-> row.table_name,
                           index_name |-> row.index_name,
                           type |-> row.type_desc,
                           is_unique |-> row.is_unique,
                           is_primary_key |-> row.is_primary_key,
                           key_columns |-> row.key_columns,
                           included_columns |-> row.included_columns,
                           migration_notes |-> MigrationNotes(row)]),
                 Increment(index_types, row.type_desc))

RECURSIVE IndexLoop(_, _, _, _)
\* the for loop over cursor.fetchall(), from row i on
IndexLoop(rows, i, index_analysis, index_types) ==
    IF i > Len(rows)
    THEN [index_analysis |-> index_analysis, index_types |-> index_types]
    ELSE LET row == rows[i]
         IN  IndexLoop(rows, i + 1,
                 Append(index_analysis,
                     [table |-> row.table_name,
                      index_name |-> row.index_name,
                      type |-> row.type_desc,
                      is_unique |-> row.is_unique,
                      is_primary_key |-> row.is_primary_key,
                      key_columns |-> row.key_columns,
                      included_columns |-> row.included_columns,
                      migration_notes |-> MigrationNotes(row)]),
                 Increment(index_types, row.type_desc))

\* what analyze_indexes returns for the fetched rows
analyze_indexes(rows) ==
    LET r == IndexLoop(rows, 1, <<>>, EmptyDict)
    IN  [total_indexes |-> Len(r.index_analysis),
         index_types |-> r.index_types,
         detailed_analysis |-> r.index_analysis]

\* the shapes of index used when the whole report is generated
ReportIndexShapes ==
    {[type_desc |-> "CLUSTERED", fill_factor |-> Some(0), included_columns |-> None],
     [type_desc |-> "NONCLUSTERED", fill_factor |-> Some(90), included_columns |-> Some("c2")]}

\* the shapes of index used when analyze_indexes is examined on its own:
\* sys.indexes type_desc values, fill factors (0: server default) and
\* included-column lists (NULL: none)
WideIndexShapes ==
    [type_desc : {"CLUSTERED", "NONCLUSTERED", "CLUSTERED COLUMNSTORE",
                  "NONCLUSTERED COLUMNSTORE"},
     fill_factor : {Some(0), Some(90), Some(100)},
     included_columns : {None, Some("c2")}]

\* the shapes of index used when the fill-factor rule is examined: every fill
\* factor, and NULL
FillFactorShapes ==
    [type_desc : {"NONCLUSTERED"},
     fill_factor : {None} \cup {Some(f) : f \in 0..MaxFillFactor},
     included_columns : {None, Some("c2")}]

\* row lists of the index query; indexes are named by their ordinals
IndexRows(shapes, n) ==
    {[i \in 1..Len(ss) |->
        [table_name |-> "t", index_name |-> i, type_desc |-> ss[i].type_desc,
         is_unique |-> FALSE, is_primary_key |-> FALSE,
         fill_factor |-> ss[i].fill_factor,
         key_columns |-> "c1 ASC", included_columns |-> ss[i].included_columns]]
     : ss \in SeqsUpTo(shapes, n)}

---------------------------------------------------------------------------
(* generate_migration_phases *)

LowPhases ==
    <<[phase |-> 1, name |-> "Schema Migration", duration_estimate |-> "1-2 weeks",
       tasks |-> <<"Export schema using AWS SCT", "Convert data types", "Create tables in Aurora PostgreSQL", "Migrate indexes">>],
      [phase |-> 2, name |-> "Data Migration", duration_estimate |-> "1 week",
       tasks |-> <<"Setup AWS DMS replication", "Full load migration", "Validate data integrity">>],
      [phase |-> 3, name |-> "Application Migration", duration_estimate |-> "1-2 weeks",
       tasks |-> <<"Update connection strings", "Test application functionality", "Performance tuning">>]>>

MediumHighPhases ==
    <<[phase |-> 1, name |-> "Assessment & Planning", duration_estimate |-> "2-3 weeks",
       tasks |-> <<"Detailed compatibility analysis", "Run Babelfish Compass", "Identify high-risk objects", "Plan mitigation strategies">>],
      [phase |-> 2, name |-> "Schema Conversion", duration_estimate |-> "3-4 weeks",
       tasks |-> <<"Convert tables and views", "Migrate indexes and constraints", "Setup partitioning if needed", "Create sequences">>],
      [phase |-> 3, name |-> "Code Migration", duration_estimate |-> "4-6 weeks",
       tasks |-> <<"Convert stored procedures to PL/pgSQL", "Rewrite incompatible constructs", "Migrate triggers", "Update dynamic SQL">>],
      [phase |-> 4, name |-> "Data Migration", duration_estimate |-> "2-3 weeks",
       tasks |-> <<"Setup AWS DMS", "Perform initial full load", "Setup CDC for incremental sync", "Data validation">>],
      [phase |-> 5, name |-> "Testing & Validation", duration_estimate |-> "3-4 weeks",
       tasks |-> <<"Functional testing", "Performance testing", "User acceptance testing", "Security validation">>],
      [phase |-> 6, name |-> "Cutover", duration_estimate |-> "1 week",
       tasks |-> <<"Final data sync", "DNS/connection string updates", "Monitoring setup", "Rollback plan ready">>]>>

PocPhases ==
    <<[phase |-> 0, name |-> "Pre-Migration POC", duration_estimate |-> "4-6 weeks",
       tasks |-> <<"Select representative subset", "Pilot migration", "Identify major blockers", "Refine approach">>]>>

\* variant: a LOW database with flagged procedures gets the long plan
generate_migration_phases_ByIssues(results) ==
    LET complexity == results.schema_complexity.complexity_level
    IN  IF complexity = "LOW" /\ results.stored_procedure_analysis.procedures_with_issues = 0
        THEN LowPhases
        ELSE IF complexity \in {"LOW", "MEDIUM", "HIGH"} THEN MediumHighPhases
        ELSE PocPhases

\* variant: HIGH is not handled with MEDIUM
generate_migration_phases_MediumOnly(results) ==
    LET complexity == results.schema_complexity.complexity_level
    IN  IF complexity = "LOW" THEN LowPhases
        ELSE IF complexity = "MEDIUM" THEN MediumHighPhases
        ELSE PocPhases

generate_migration_phases(results) ==
    LET complexity == results.schema_complexity.complexity_level
    IN  IF complexity = "LOW" THEN LowPhases
        ELSE IF complexity \in {"MEDIUM", "HIGH"} THEN MediumHighPhases
        ELSE PocPhases

---------------------------------------------------------------------------
(* calculate_migration_score and the readiness tier *)

\* details.get('clr_assemblies', 0)
ClrCount(details) ==
    IF "clr_assemblies" \in DOMAIN details THEN details.clr_assemblies ELSE 0

\* variant: the complexity deduction applied with the wrong sign
ComplexityPenalty_Negated(complexity_score) == RMul(complexity_score, Rat(-3, 10))

\* variant: half the complexity score is deducted
ComplexityPenalty_Half(complexity_score) == RMul(complexity_score, Rat(1, 2))

\* variant: the whole complexity score is deducted
ComplexityPenalty_Whole(complexity_score) == complexity_score

\* complexity_score * 0.3
ComplexityPenalty(complexity_score) == RMul(complexity_score, Rat(3, 10))

\* variant: the CLR deduction left uncapped
ClrPenalty_Uncapped(clr_count) == Num(clr_count * 10)

\* min(clr_count * 10, 20)
ClrPenalty(clr_count) == RMin(Num(clr_count * 10), Num(20))

\* variant: the ratio is computed without looking at the total
HasProcedures_Unguarded(total_sp) == TRUE

\* if total_sp > 0
HasProcedures(total_sp) == total_sp > 0

\* if total_cols > 0
HasColumns(total_cols) == total_cols > 0

\* a division whose denominator is 0 is executed: ZeroDivisionError
ZeroDivision(results) ==
    \/ /\ HasProcedures(results.stored_procedure_analysis.total_procedures)
       /\ results.stored_procedure_analysis.total_procedures = 0
    \/ /\ HasColumns(results.data_type_analysis.total_columns_analyzed)
       /\ results.data_type_analysis.total_columns_analyzed = 0

\* score when the return statement is reached
ScoreBeforeReturn(results) ==
    LET complexity_score == results.schema_complexity.complexity_score
        s1 == RSub(Num(100), ComplexityPenalty(complexity_score))
        sp_issues == results.stored_procedure_analysis.procedures_with_issues
        total_sp == results.stored_procedure_analysis.total_procedures
        s2 == IF HasProcedures(total_sp)
              THEN RSub(s1, RMul(Div(sp_issues, total_sp), Num(20)))
              ELSE s1
        type_issues == Len(results.data_type_analysis.compatibility_issues)
        total_cols == results.data_type_analysis.total_columns_analyzed
        s3 == IF HasColumns(total_cols)
              THEN RSub(s2, RMul(Div(type_issues, total_cols), Num(15)))
              ELSE s2
        clr_count == ClrCount(results.schema_complexity.details)
    IN  IF clr_count > 0 THEN RSub(s3, ClrPenalty(clr_count)) ELSE s3

\* variant: the score returned without the floor at 0
calculate_migration_score_NoFloor(results) == ScoreBeforeReturn(results)

\* return max(score, 0)
calculate_migration_score(results) == RMax(ScoreBeforeReturn(results), Num(0))

\* variant: the tiers taken inclusively (>=)
readiness_level_Inclusive(readiness_score) ==
    IF RLe(Num(70), readiness_score) THEN "READY"
    ELSE IF RLe(Num(50), readiness_score) THEN "MODERATE"
    ELSE IF RLe(Num(30), readiness_score) THEN "CHALLENGING"
    ELSE "REQUIRES_SIGNIFICANT_EFFORT"

\* variant: READY only above 80
readiness_level_ReadyAbove80(readiness_score) ==
    IF RGt(readiness_score, Num(80)) THEN "READY"
    ELSE IF RGt(readiness_score, Num(50)) THEN "MODERATE"
    ELSE IF RGt(readiness_score, Num(30)) THEN "CHALLENGING"
    ELSE "REQUIRES_SIGNIFICANT_EFFORT"

readiness_level(readiness_score) ==
    IF RGt(readiness_score, Num(70)) THEN "READY"
    ELSE IF RGt(readiness_score, Num(50)) THEN "MODERATE"
    ELSE IF RGt(readiness_score, Num(30)) THEN "CHALLENGING"
    ELSE "REQUIRES_SIGNIFICANT_EFFORT"

---------------------------------------------------------------------------
(* generate_assessment_report, one action per call it makes *)

\* variant: only the presence of a row is tested
db_exists_RowOnly(row) == row # None

\* _db_exists on the row fetched for SELECT DB_ID(?)
db_exists(row) == row # None /\ row[1][1] # None

\* variant: the exception is caught and the report is exported without the data
Raise_Swallowed(query, cause) ==
    /\ pc' = "export"
    /\ failed' = failed \cup {<<query, cause>>}
    /\ UNCHANGED <<db_id, fetched, error, assessment_results, locals, output_file, returned>>

\* a cursor.execute that raises leaves generate_assessment_report at once
Raise(query, cause) ==
    /\ pc' = "raised"
    /\ error' = "pyodbc.Error"
    /\ failed' = failed \cup {<<query, cause>>}
    /\ UNCHANGED <<db_id, fetched, assessment_results, locals, output_file, returned>>

\* if not self._db_exists(str(database_name)): raise ValueError(...)
ValidateDatabase ==
    /\ pc = "validate"
    /\ queries' = Append(queries, "db_id")
    /\ \/ Raise("db_id", "connection")
       \/ /\ db_exists(Some(<<db_id>>))
          /\ pc' = "schema_complexity"
          /\ assessment_results' =
                 assessment_results @@ [database |-> "db", assessment_date |-> "now"]
          /\ UNCHANGED <<db_id, fetched, error, failed, locals, output_file, returned>>
       \/ /\ ~db_exists(Some(<<db_id>>))
          /\ pc' = "raised"
          /\ error' = "ValueError"
          /\ UNCHANGED <<db_id, fetched, failed, assessment_results, locals, output_file,
                         returned>>
    /\ UNCHANGED parVars
    /\ UNCHANGED orderVars

\* 'schema_complexity': self.assess_schema_complexity(database_name)
\* The seven counts come from one SELECT: a count that cannot be read, or a
\* lost connection, makes cursor.execute raise.
AssessSchemaComplexity(rows) ==
    /\ pc = "schema_complexity"
    /\ queries' = Append(queries, "object_counts")
    /\ \/ \E cause \in CountCategories \cup {"connection"} : Raise("object_counts", cause)
       \/ \E row \in rows :
            /\ fetched' = fetched @@ [object_counts |-> row]
            /\ assessment_results' =
                   assessment_results @@ [schema_complexity |-> assess_schema_complexity(row)]
            /\ pc' = "stored_procedures"
            /\ UNCHANGED <<db_id, error, failed, locals, output_file, returned>>
    /\ UNCHANGED parVars
    /\ UNCHANGED orderVars

\* 'stored_procedure_analysis': self.analyze_stored_procedures(database_name)
AnalyzeStoredProcedures(rowLists) ==
    /\ pc = "stored_procedures"
    /\ queries' = Append(queries, "procedures")
    /\ \/ Raise("procedures", "connection")
       \/ \E rows \in rowLists :
            /\ fetched' = fetched @@ [procedures |-> rows]
            /\ assessment_results' =
                   assessment_results
                       @@ [stored_procedure_analysis |-> analyze_stored_procedures(rows)]
            /\ pc' = "data_types"
            /\ UNCHANGED <<db_id, error, failed, locals, output_file, returned>>
    /\ UNCHANGED parVars
    /\ UNCHANGED orderVars

\* variant: the column analysis does not wait for the procedure analysis
AnalyzeDataTypes_Unordered(rowLists) ==
    /\ pc \in {"stored_procedures", "data_types"}
    /\ queries' = Append(queries, "columns")
    /\ \E rows \in rowLists :
            /\ fetched' = fetched @@ [columns |-> rows]
            /\ assessment_results' =
                   assessment_results @@ [data_type_analysis |-> analyze_data_types(rows)]
            /\ pc' = "indexes"
            /\ UNCHANGED <<db_id, error, failed, locals, output_file, returned>>
    /\ UNCHANGED parVars
    /\ UNCHANGED orderVars

\* 'data_type_analysis': self.analyze_data_types(database_name)
AnalyzeDataTypes(rowLists) ==
    /\ pc = "data_types"
    /\ queries' = Append(queries, "columns")
    /\ \/ Raise("columns", "connection")
       \/ \E rows \in rowLists :
            /\ fetched' = fetched @@ [columns |-> rows]
            /\ assessment_results' =
                   assessment_results @@ [data_type_analysis |-> analyze_data_types(rows)]
            /\ pc' = "indexes"
            /\ UNCHANGED <<db_id, error, failed, locals, output_file, returned>>
    /\ UNCHANGED parVars
    /\ UNCHANGED orderVars

\* 'index_analysis': self.analyze_indexes(database_name)
AnalyzeIndexes(rowLists) ==
    /\ pc = "indexes"
    /\ queries' = Append(queries, "indexes")
    /\ \/ Raise("indexes", "connection")
       \/ \E rows \in rowLists :
            /\ fetched' = fetched @@ [indexes |-> rows]
            /\ assessment_results' =
                   assessment_results @@ [index_analysis |-> analyze_indexes(rows)]
            /\ pc' = "calculate_score"
            /\ UNCHANGED <<db_id, error, failed, locals, output_file, returned>>
    /\ UNCHANGED parVars
    /\ UNCHANGED orderVars

\* readiness_score = self.calculate_migration_score(assessment_results)
\* (an exception raised inside leaves generate_assessment_report)
CalculateMigrationScore ==
    /\ pc = "calculate_score"
    /\ IF ZeroDivision(assessment_results)
       THEN /\ pc' = "raised"
            /\ error' = "ZeroDivisionError"
            /\ UNCHANGED locals
       ELSE /\ locals' = locals
                    @@ [readiness_score |-> calculate_migration_score(assessment_results)]
            /\ pc' = "generate_phases"
            /\ UNCHANGED error
    /\ UNCHANGED <<db_id, fetched, queries, failed, assessment_results, output_file, returned>>
    /\ UNCHANGED parVars
    /\ UNCHANGED orderVars

\* migration_phases = self.generate_migration_phases(assessment_results)
GenerateMigrationPhases ==
    /\ pc = "generate_phases"
    /\ locals' = locals @@ [migration_phases |-> generate_migration_phases(assessment_results)]
    /\ pc' = "add_to_report"
    /\ UNCHANGED <<db_id, fetched, error, queries, failed, assessment_results, output_file,
                   returned>>
    /\ UNCHANGED parVars
    /\ UNCHANGED orderVars

\* assessment_results['readiness_score'] = ...; ['readiness_level'] = ...;
\* ['migration_phases'] = ...
AddToReport ==
    /\ pc = "add_to_report"
    /\ assessment_results' =
           assessment_results
               @@ [readiness_score |-> locals.readiness_score,
                   readiness_level |-> readiness_level(locals.readiness_score),
                   migration_phases |-> locals.migration_phases]
    /\ pc' = "export"
    /\ UNCHANGED <<db_id, fetched, error, queries, failed, locals, output_file, returned>>
    /\ UNCHANGED parVars
    /\ UNCHANGED orderVars

\* os.makedirs, json.dump into output_file, the prints, return assessment_results
\* (the dumped document is kept as the dict itself)
ExportAndReturn ==
    /\ pc = "export"
    /\ output_file' = <<assessment_results>>
    /\ returned' = <<assessment_results>>
    /\ pc' = "done"
    /\ UNCHANGED <<db_id, fetched, error, queries, failed, assessment_results, locals>>
    /\ UNCHANGED parVars
    /\ UNCHANGED orderVars

\* the state when generate_assessment_report is entered
Init ==
    /\ db_id \in {None, Some(5)}
    /\ fetched = EmptyDict
    /\ pc = "validate"
    /\ error = "none"
    /\ queries = <<>>
    /\ failed = {}
    /\ assessment_results = EmptyDict
    /\ locals = EmptyDict
    /\ output_file = <<>>
    /\ returned = <<>>
    /\ NoCallers
    /\ NoOrder

\* The five statements are separate executes with no snapshot isolation
\* between them, so the row lists are not tied to the counts fetched before.
Next ==
    \/ ValidateDatabase
    \/ AssessSchemaComplexity(ReportCountRows)
    \/ AnalyzeStoredProcedures(ProcedureRows(ReportDefinitions, MaxProcs))
    \/ AnalyzeDataTypes(ColumnRows(ReportTypes, MaxCols))
    \/ AnalyzeIndexes(IndexRows(ReportIndexShapes, MaxIdx))
    \/ CalculateMigrationScore
    \/ GenerateMigrationPhases
    \/ AddToReport
    \/ ExportAndReturn

Spec == Init /\ [][Next]_vars

---------------------------------------------------------------------------
(* assess_schema_complexity alone, over the wide domain of count rows *)

\* the state once the database has been validated
InitComplexity ==
    /\ db_id = Some(5)
    /\ fetched = EmptyDict
    /\ pc = "schema_complexity"
    /\ error = "none"
    /\ queries = <<"db_id">>
    /\ failed = {}
    /\ assessment_results = [database |-> "db", assessment_date |-> "now"]
    /\ locals = EmptyDict
    /\ output_file = <<>>
    /\ returned = <<>>
    /\ NoCallers
    /\ NoOrder

NextComplexity == AssessSchemaComplexity(CountRows)

SpecComplexity == InitComplexity /\ [][NextComplexity]_vars

---------------------------------------------------------------------------
(* calculate_migration_score called on an arbitrary assessment_results dict *)

\* complexity scores handed in: 0, 29.9, 50, 100
ScoreInputComplexity == {Num(0), Rat(299, 10), Num(50), Num(100)}

\* details dicts handed in: without the clr_assemblies key, and with it
ScoreInputDetails ==
    {[tables |-> 0]} \cup {[tables |-> 0, clr_assemblies |-> c] : c \in {0, 1, 2, 5}}

ScoreInputs ==
    {[schema_complexity |->
          [complexity_score |-> cs,
           complexity_level |-> categorize_complexity(cs),
           details |-> d],
      stored_procedure_analysis |->
          [procedures_with_issues |-> k, total_procedures |-> n],
      data_type_analysis |->
          [compatibility_issues |-> [i \in 1..t |-> [severity |-> "HIGH"]],
           total_columns_analyzed |-> c]]
     : cs \in ScoreInputComplexity, d \in ScoreInputDetails,
       k \in 0..MaxTerm, n \in 0..MaxTerm, t \in 0..MaxTerm, c \in 0..MaxTerm}

InitScore ==
    /\ db_id = Some(5)
    /\ fetched = EmptyDict
    /\ pc = "calculate_score"
    /\ error = "none"
    /\ queries = <<>>
    /\ failed = {}
    /\ assessment_results \in ScoreInputs
    /\ locals = EmptyDict
    /\ output_file = <<>>
    /\ returned = <<>>
    /\ NoCallers
    /\ NoOrder

\* the state in which analyze_stored_procedures is called: the object counts
\* of one database have been fetched
SampleCountRow ==
    [table_count |-> 15, view_count |-> 7, sp_count |-> 3, trigger_count |-> 1,
     udt_count |-> 0, xml_schema_count |-> 0, clr_assembly_count |-> 0]

InitAnalyzer(at, done, fetchedBefore, resultsBefore) ==
    /\ db_id = Some(5)
    /\ fetched = [object_counts |-> SampleCountRow] @@ fetchedBefore
    /\ pc = at
    /\ error = "none"
    /\ queries = <<"db_id", "object_counts">> \o done
    /\ failed = {}
    /\ assessment_results =
           [database |-> "db", assessment_date |-> "now",
            schema_complexity |-> assess_schema_complexity(SampleCountRow)]
           @@ resultsBefore
    /\ locals = EmptyDict
    /\ output_file = <<>>
    /\ returned = <<>>
    /\ NoCallers
    /\ NoOrder

InitProcs == InitAnalyzer("stored_procedures", <<>>, EmptyDict, EmptyDict)

NextProcs == AnalyzeStoredProcedures(ProcedureRows(WideDefinitions, MaxProcs))

SpecProcs == InitProcs /\ [][NextProcs]_vars

\* the procedures fetched before analyze_data_types is called
SampleProcedureRows ==
    <<[name |-> 1, definition |-> Some(<<"C","u","r","s","o","r"," ","c">>),
       create_date |-> "created", modify_date |-> "modified"]>>

InitTypes ==
    InitAnalyzer("data_types", <<"procedures">>,
                 [procedures |-> SampleProcedureRows],
                 [stored_procedure_analysis |-> analyze_stored_procedures(SampleProcedureRows)])

NextTypes == AnalyzeDataTypes(ColumnRows(WideTypes, MaxCols))

SpecTypes == InitTypes /\ [][NextTypes]_vars

\* the columns fetched before analyze_indexes is called
SampleColumnRows ==
    <<[table_name |-> "t", column_name |-> 1, data_type |-> <<"M","o","n","e","y">>]>>

InitIndexes ==
    InitAnalyzer("indexes", <<"procedures", "columns">>,
                 [procedures |-> SampleProcedureRows, columns |-> SampleColumnRows],
                 [stored_procedure_analysis |-> analyze_stored_procedures(SampleProcedureRows),
                  data_type_analysis |-> analyze_data_types(SampleColumnRows)])

NextIndexes == AnalyzeIndexes(IndexRows(WideIndexShapes, MaxWideIdx))

SpecIndexes == InitIndexes /\ [][NextIndexes]_vars

NextFillFactors == AnalyzeIndexes(IndexRows(FillFactorShapes, MaxIdx))

SpecFillFactors == InitIndexes /\ [][NextFillFactors]_vars

NextScore ==
    \/ CalculateMigrationScore
    \/ GenerateMigrationPhases
    \/ AddToReport

SpecScore == InitScore /\ [][NextScore]_vars

---------------------------------------------------------------------------
(* Properties *)

Has(dict, key) == key \in DOMAIN dict

Min2(a, b) == IF a < b THEN a ELSE b

\* the complexity score in tenths, computed on integers from a count row
ExpectedComplexityTenths(row) ==
    Min2(1000,
         Min2(row.table_count, 200)
         + Min2(row.sp_count * 2, 250)
         + Min2(row.trigger_count * 50, 150)
         + Min2(row.udt_count * 100, 200)
         + Min2(row.clr_assembly_count * 200, 200))

\* every count is at or above its saturation point
Saturated(row) ==
    /\ row.table_count >= 200
    /\ row.sp_count >= 125
    /\ row.trigger_count >= 3
    /\ row.udt_count >= 2
    /\ row.clr_assembly_count >= 1

\* a fetched procedure row matches at least one of the six patterns
Flagged(row) == \E i \in 1..6 : PatternFlags(SpDef(row))[i]

\* a fetched column row is unmapped or carries a Requires note
ColumnHasIssue(row) ==
    LET t == StrUpper(row.data_type)
    IN  ~InTypeMapping(t) \/ RequiresIn(TypeMappingOf(t)[3])

SnapshotQueries == {"object_counts", "procedures", "columns", "indexes"}

AnalysisKeys ==
    {"schema_complexity", "stored_procedure_analysis", "data_type_analysis", "index_analysis"}

\* C1: whenever the report holds a complexity_score it lies in [0, 100], and
\* whenever calculate_migration_score has returned, the readiness_score lies
\* in [0, 100].
C1_ScoresInRange ==
    /\ Has(assessment_results, "schema_complexity") =>
           /\ RLe(Num(0), assessment_results.schema_complexity.complexity_score)
           /\ RLe(assessment_results.schema_complexity.complexity_score, Num(100))
    /\ Has(locals, "readiness_score") =>
           /\ RLe(Num(0), locals.readiness_score)
           /\ RLe(locals.readiness_score, Num(100))

\* both scores computed, the complexity score at its upper end
C1_Witness ==
    /\ Has(locals, "readiness_score")
    /\ assessment_results.schema_complexity.complexity_score = Num(100)
    /\ RLt(locals.readiness_score, Num(100))

\* C2: the complexity_score returned for a count row is
\* min(100, min(tables/10,20) + min(sp/5,25) + min(triggers*5,15)
\* + min(udt*10,20) + min(clr*20,20)); rows differing only in views and XML
\* schema collections get the same score; a saturated row gets exactly 100.
C2_ComplexityFormula ==
    Has(assessment_results, "schema_complexity") =>
        LET row == fetched.object_counts
            score == assessment_results.schema_complexity.complexity_score
        IN  /\ score = Rat(ExpectedComplexityTenths(row), 10)
            /\ \A v \in {0, 7}, x \in {0, 4} :
                   assess_schema_complexity(
                       [row EXCEPT !.view_count = v, !.xml_schema_count = x]).complexity_score
                   = score
            /\ Saturated(row) => score = Num(100)

\* a saturated row (every count 1000) has been scored
C2_Witness ==
    /\ Has(assessment_results, "schema_complexity")
    /\ \A f \in {"table_count", "sp_count", "trigger_count", "udt_count", "clr_assembly_count"} :
           fetched.object_counts[f] = 1000
    /\ assessment_results.schema_complexity.complexity_score = Num(100)

\* the tier of a score given in tenths
TierOfTenths(t) ==
    IF t < 300 THEN "LOW"
    ELSE IF t < 600 THEN "MEDIUM"
    ELSE IF t < 800 THEN "HIGH"
    ELSE "VERY_HIGH"

\* C3: in every result of assess_schema_complexity the complexity_level is
\* the tier of the (clamped) complexity_score of the same result: LOW below
\* 30, MEDIUM from 30 and below 60, HIGH from 60 and below 80, VERY_HIGH from 80.
C3_LevelIsTierOfScore ==
    Has(assessment_results, "schema_complexity") =>
        LET r == assessment_results.schema_complexity
        IN  /\ 10 % r.complexity_score.den = 0
            /\ r.complexity_level
                   = TierOfTenths(r.complexity_score.num * (10 \div r.complexity_score.den))

\* a result whose score is exactly 30.0, tiered MEDIUM
C3_Witness ==
    /\ Has(assessment_results, "schema_complexity")
    /\ assessment_results.schema_complexity.complexity_score = Num(30)
    /\ assessment_results.schema_complexity.complexity_level = "MEDIUM"

\* the four penalties of the readiness score as the claim states them
ExpectedScore(results) ==
    LET k == results.stored_procedure_analysis.procedures_with_issues
        n == results.stored_procedure_analysis.total_procedures
        t == Len(results.data_type_analysis.compatibility_issues)
        c == results.data_type_analysis.total_columns_analyzed
        clr == IF Has(results.schema_complexity.details, "clr_assemblies")
               THEN results.schema_complexity.details.clr_assemblies ELSE 0
        cs == results.schema_complexity.complexity_score
        P == IF n = 0 THEN Num(0) ELSE Rat(k * 20, n)
        T == IF c = 0 THEN Num(0) ELSE Rat(t * 15, c)
        C == Num(Min2(clr * 10, 20))
        total == RAdd(RAdd(RAdd(Rat(cs.num * 3, cs.den * 10), P), T), C)
    IN  IF RLt(Num(100), total) THEN Num(0) ELSE RSub(Num(100), total)

\* C4: calculate_migration_score returns max(0, 100 - complexity_score*0.3
\* - P - T - C) with P = (issues/total)*20 (0 when total = 0), T =
\* (type issues/columns)*15 (0 when columns = 0), C = min(clr*10, 20); for
\* complexity 0, no procedure, no column and no CLR assembly it is exactly 100
\* and the level is READY.
C4_ScoreFormula ==
    /\ Has(locals, "readiness_score") =>
           locals.readiness_score = ExpectedScore(assessment_results)
    /\ ( /\ Has(assessment_results, "readiness_level")
         /\ assessment_results.schema_complexity.complexity_score = Num(0)
         /\ assessment_results.stored_procedure_analysis.total_procedures = 0
         /\ assessment_results.data_type_analysis.total_columns_analyzed = 0
         /\ ClrCount(assessment_results.schema_complexity.details) = 0 )
       => /\ assessment_results.readiness_score = Num(100)
          /\ assessment_results.readiness_level = "READY"

\* the score of an input whose penalties exceed 100 has been floored at 0
C4_Witness ==
    /\ Has(locals, "readiness_score")
    /\ assessment_results.stored_procedure_analysis.procedures_with_issues
           > assessment_results.stored_procedure_analysis.total_procedures
    /\ assessment_results.stored_procedure_analysis.total_procedures > 0
    /\ ClrCount(assessment_results.schema_complexity.details) = 5
    /\ locals.readiness_score = Num(0)

\* C5: in the result of analyze_stored_procedures, total_procedures is the
\* number of procedure records received and procedures_with_issues the number
\* of those with at least one issue, so k flagged of n cost (k/n)*20 points.
C5_TotalCountsAllProcedures ==
    Has(assessment_results, "stored_procedure_analysis") =>
        LET rows == fetched.procedures
            r == assessment_results.stored_procedure_analysis
        IN  /\ r.total_procedures = Len(rows)
            /\ r.procedures_with_issues = Cardinality({i \in 1..Len(rows) : Flagged(rows[i])})

\* the case C6 is about: complexity 100, at least one procedure and every
\* procedure flagged, at least one column and every column flagged, 5 CLR
\* assemblies, and the report completed
C6_Case ==
    /\ Has(assessment_results, "readiness_level")
    /\ assessment_results.schema_complexity.complexity_score = Num(100)
    /\ fetched.object_counts.clr_assembly_count = 5
    /\ fetched.procedures # <<>>
    /\ \A i \in 1..Len(fetched.procedures) : Flagged(fetched.procedures[i])
    /\ fetched.columns # <<>>
    /\ \A i \in 1..Len(fetched.columns) : ColumnHasIssue(fetched.columns[i])

\* C6 as stated: in that case the readiness score is clamped to 0 and the
\* level is REQUIRES_SIGNIFICANT_EFFORT.
C6_ClampedToZero ==
    C6_Case =>
        /\ assessment_results.readiness_score = Num(0)
        /\ assessment_results.readiness_level = "REQUIRES_SIGNIFICANT_EFFORT"

\* C6 amended: in that case the readiness score is 15 (100 - 30 - 20 - 15 - 20,
\* the floor at 0 is not reached) and the level is REQUIRES_SIGNIFICANT_EFFORT.
C6_ScoreIsFifteen ==
    C6_Case =>
        /\ assessment_results.readiness_score = Num(15)
        /\ assessment_results.readiness_level = "REQUIRES_SIGNIFICANT_EFFORT"

C6_Witness == C6_Case /\ pc = "done"

\* C7: in every report readiness_level is determined by readiness_score:
\* READY above 70, MODERATE above 50 up to 70, CHALLENGING above 30 up to 50,
\* REQUIRES_SIGNIFICANT_EFFORT up to 30.
C7_LevelIsTierOfReadiness ==
    Has(assessment_results, "readiness_level") =>
        LET n == assessment_results.readiness_score.num
            d == assessment_results.readiness_score.den
        IN  assessment_results.readiness_level =
                (IF n > 70 * d THEN "READY"
                 ELSE IF n > 50 * d THEN "MODERATE"
                 ELSE IF n > 30 * d THEN "CHALLENGING"
                 ELSE "REQUIRES_SIGNIFICANT_EFFORT")

\* a report whose score is exactly 70 is MODERATE
C7_Witness ==
    /\ Has(assessment_results, "readiness_level")
    /\ assessment_results.readiness_score = Num(70)
    /\ assessment_results.readiness_level = "MODERATE"

\* C8: when the database does not exist, the call has failed as soon as the
\* existence check is over: the check is the only statement executed, once,
\* no analysis result exists, no file is written, nothing is returned.
C8_MissingDatabaseFailsFast ==
    (db_id = None /\ pc # "validate") =>
        /\ pc = "raised"
        /\ error # "none"
        /\ queries = <<"db_id">>
        /\ DOMAIN assessment_results \cap AnalysisKeys = {}
        /\ DOMAIN fetched = {}
        /\ output_file = <<>>
        /\ returned = <<>>

\* the ValueError raised for a database that does not exist
C8_Witness == db_id = None /\ pc = "raised" /\ error = "ValueError"

\* C9: if one of the four snapshot queries fails the call has failed with
\* that error, nothing is returned and no file is written; a file exists only
\* when all four queries were executed and none failed.
C9_AllOrNothing ==
    /\ (\E f \in failed : f[1] \in SnapshotQueries) =>
           /\ pc = "raised"
           /\ error = "pyodbc.Error"
           /\ returned = <<>>
           /\ output_file = <<>>
    /\ output_file # <<>> =>
           /\ failed = {}
           /\ DOMAIN fetched = SnapshotQueries
           /\ queries = <<"db_id", "object_counts", "procedures", "columns", "indexes">>

\* the last of the four queries failed after three analyses had completed
C9_Witness ==
    /\ <<"indexes", "connection">> \in failed
    /\ AnalysisKeys \ {"index_analysis"} \subseteq DOMAIN assessment_results
    /\ pc = "raised"
    /\ output_file = <<>>

\* C10: when one count category is unavailable, assess_schema_complexity
\* still returns a result (in which that category contributes 0).
C10_UnavailableCategoryContributesZero ==
    \A f \in failed :
        (f[1] = "object_counts" /\ f[2] \in CountCategories) =>
            /\ Has(assessment_results, "schema_complexity")
            /\ error = "none"

\* 100 minus the given penalties, floored at 0
FlooredScore(results, P, T) ==
    LET cs == results.schema_complexity.complexity_score
        C == Num(Min2(ClrCount(results.schema_complexity.details) * 10, 20))
        total == RAdd(RAdd(RAdd(Rat(cs.num * 3, cs.den * 10), P), T), C)
    IN  IF RLt(Num(100), total) THEN Num(0) ELSE RSub(Num(100), total)

\* C11: calculate_migration_score never raises ZeroDivisionError; with
\* total_procedures = 0 the procedure penalty is 0 and with
\* total_columns_analyzed = 0 the type penalty is 0, whatever the other inputs.
C11_ZeroDenominatorsAreNoPenalty ==
    /\ error # "ZeroDivisionError"
    /\ Has(locals, "readiness_score") =>
           LET sp == assessment_results.stored_procedure_analysis
               dt == assessment_results.data_type_analysis
               P == Rat(sp.procedures_with_issues * 20, sp.total_procedures)
               T == Rat(Len(dt.compatibility_issues) * 15, dt.total_columns_analyzed)
           IN  /\ (sp.total_procedures = 0 /\ dt.total_columns_analyzed = 0) =>
                      locals.readiness_score = FlooredScore(assessment_results, Num(0), Num(0))
               /\ (sp.total_procedures = 0 /\ dt.total_columns_analyzed # 0) =>
                      locals.readiness_score = FlooredScore(assessment_results, Num(0), T)
               /\ (sp.total_procedures # 0 /\ dt.total_columns_analyzed = 0) =>
                      locals.readiness_score = FlooredScore(assessment_results, P, Num(0))

\* a score was computed from a dict with issues but both totals 0
C11_Witness ==
    /\ Has(locals, "readiness_score")
    /\ assessment_results.stored_procedure_analysis.total_procedures = 0
    /\ assessment_results.stored_procedure_analysis.procedures_with_issues > 0
    /\ assessment_results.data_type_analysis.total_columns_analyzed = 0
    /\ Len(assessment_results.data_type_analysis.compatibility_issues) > 0
    /\ error = "none"

---------------------------------------------------------------------------
(* stored procedures: findings, tags, issue lists, counters *)

\* the categories (positions in FeatureKeys) each text of WideDefinitionList
\* matches, read off the six tests of the source:
\*   None                                               -
\*   ''                                                 -
\*   'select 1'                                         -
\*   'Cursor c'                                         cursors
\*   'exec(@s) cursor'                                  cursors, dynamic_sql
\*   'cursor raiserror try catch exec( @x output @@e'   cursors, raiserror, try_catch, dynamic_sql, output_params, global_vars
\*   'cursor raiserror @@e'                             cursors, raiserror, global_vars
\*   'cursor raiserror @@e Execute('                    cursors, raiserror, dynamic_sql, global_vars
\*   'entry'                                            -
\*   'Catch Try'                                        try_catch
\*   'exec sp'                                          -
\*   '@x OUTPUT'                                        output_params
\*   '@x output,'                                       -
\*   'cursor cursor'                                    cursors
ExpectedCategoryList ==
    <<<<>>,
      <<>>,
      <<>>,
      <<1>>,
      <<1, 4>>,
      <<1, 2, 3, 4, 5, 6>>,
      <<1, 2, 6>>,
      <<1, 2, 4, 6>>,
      <<>>,
      <<3>>,
      <<>>,
      <<5>>,
      <<>>,
      <<1>>>>

ExpectedCategories(definition) ==
    ExpectedCategoryList[CHOOSE i \in DOMAIN WideDefinitionList :
                             WideDefinitionList[i] = definition]

ProceduresAnalyzed == Has(assessment_results, "stored_procedure_analysis")

Blank(row) == row.definition \in {None, Some(<<>>)}

\* C12: detailed_analysis holds exactly the input procedures that matched at
\* least one category, in input order, each with a non-empty issues list; rows
\* with a null or empty definition give no finding and change no counter (the
\* result is the one obtained without them).
C12_FindingsAreTheFlaggedProcedures ==
    ProceduresAnalyzed =>
        LET rows == fetched.procedures
            result == assessment_results.stored_procedure_analysis
            flagged == SelectSeq([i \in 1..Len(rows) |-> i],
                                 LAMBDA i : ExpectedCategories(rows[i].definition) # <<>>)
            kept == SelectSeq(rows, LAMBDA row : ~Blank(row))
        IN  /\ Len(result.detailed_analysis) = Len(flagged)
            /\ \A j \in 1..Len(flagged) :
                   /\ result.detailed_analysis[j].name = rows[flagged[j]].name
                   /\ result.detailed_analysis[j].issues # <<>>
            /\ \A i \in 1..Len(rows) : Blank(rows[i]) => i \notin {flagged[j] : j \in 1..Len(flagged)}
            /\ result = analyze_stored_procedures(kept)

\* a NULL definition followed by a flagged procedure: one finding, the second
C12_Witness ==
    /\ ProceduresAnalyzed
    /\ Len(fetched.procedures) = 2
    /\ fetched.procedures[1].definition = None
    /\ Len(assessment_results.stored_procedure_analysis.detailed_analysis) = 1
    /\ assessment_results.stored_procedure_analysis.detailed_analysis[1].name = 2

\* the input row a finding was made from (names are the rows' ordinals)
RowOf(finding) == fetched.procedures[finding.name]

Findings == assessment_results.stored_procedure_analysis.detailed_analysis

\* C13: a finding is tagged HIGH exactly when it has 4, 5 or 6 issues and
\* MEDIUM when it has 1, 2 or 3; the body matching only cursors and dynamic SQL
\* has 2 issues and tag MEDIUM, the body matching all six has tag HIGH.
C13_TagIsHighAboveThreeIssues ==
    ProceduresAnalyzed =>
        \A j \in 1..Len(Findings) :
            LET f == Findings[j]
            IN  /\ Len(f.issues) \in 1..6
                /\ (Len(f.issues) \in 4..6) => f.complexity = "HIGH"
                /\ (Len(f.issues) \in 1..3) => f.complexity = "MEDIUM"
                /\ ExpectedCategories(RowOf(f).definition) = <<1, 4>> =>
                       Len(f.issues) = 2 /\ f.complexity = "MEDIUM"
                /\ ExpectedCategories(RowOf(f).definition) = <<1, 2, 3, 4, 5, 6>> =>
                       f.complexity = "HIGH"

\* a three-issue finding next to a four-issue finding
C13_Witness ==
    /\ ProceduresAnalyzed
    /\ Len(Findings) = 2
    /\ Len(Findings[1].issues) = 3 /\ Findings[1].complexity = "MEDIUM"
    /\ Len(Findings[2].issues) = 4 /\ Findings[2].complexity = "HIGH"

\* C18: the issues list of a procedure is determined by its body text alone:
\* one fixed string per matched category, each once, in the order cursors,
\* RAISERROR, TRY-CATCH, dynamic SQL, OUTPUT parameters, global variables;
\* letter case is ignored, TRY-CATCH needs both words, dynamic SQL needs
\* EXEC( or EXECUTE(, and the procedures processed before play no part.
C18_IssuesAreAFunctionOfTheBody ==
    ProceduresAnalyzed =>
        \A j \in 1..Len(Findings) :
            LET expected == ExpectedCategories(RowOf(Findings[j]).definition)
            IN  Findings[j].issues =
                    [k \in 1..Len(expected) |->
                        <<"Uses cursors (may need refactoring)",
                          "Uses RAISERROR (PostgreSQL uses RAISE)",
                          "Uses TRY-CATCH (PostgreSQL uses EXCEPTION blocks)",
                          "Uses dynamic SQL",
                          "Uses OUTPUT parameters",
                          "Uses global variables (@@)">>[expected[k]]]

\* the all-six body first, then 'Catch Try', whose finding holds the TRY-CATCH
\* issue alone
C18_Witness ==
    /\ ProceduresAnalyzed
    /\ Len(Findings) = 2
    /\ Len(Findings[1].issues) = 6
    /\ Findings[2].issues = <<"Uses TRY-CATCH (PostgreSQL uses EXCEPTION blocks)">>

RECURSIVE TotalIssues(_, _)
TotalIssues(findings, j) ==
    IF j > Len(findings) THEN 0 ELSE Len(findings[j].issues) + TotalIssues(findings, j + 1)

CountOf(counter, key) == IF key \in DOMAIN counter THEN counter[key] ELSE 0

RECURSIVE TotalCount(_, _)
TotalCount(counter, c) ==
    IF c > Len(FeatureKeys) THEN 0
    ELSE CountOf(counter, FeatureKeys[c]) + TotalCount(counter, c + 1)

\* C19: each category's count equals the number of findings whose issues list
\* contains the category's issue string; so every count is at most
\* procedures_with_issues and the counts add up to the total number of issues.
C19_CountsAreFindingsPerCategory ==
    ProceduresAnalyzed =>
        LET result == assessment_results.stored_procedure_analysis
            counter == result.incompatible_features
        IN  /\ DOMAIN counter \subseteq {FeatureKeys[c] : c \in DOMAIN FeatureKeys}
            /\ \A c \in DOMAIN FeatureKeys :
                   /\ CountOf(counter, FeatureKeys[c]) =
                          Cardinality({j \in 1..Len(Findings) :
                              \E k \in 1..Len(Findings[j].issues) :
                                  Findings[j].issues[k] = IssueStrings[c]})
                   /\ CountOf(counter, FeatureKeys[c]) <= result.procedures_with_issues
            /\ TotalCount(counter, 1) = TotalIssues(Findings, 1)

\* 'cursor cursor' and 'Cursor c': two procedures, three occurrences, count 2
C19_Witness ==
    /\ ProceduresAnalyzed
    /\ Len(fetched.procedures) = 2
    /\ ExpectedCategories(fetched.procedures[1].definition) = <<1>>
    /\ fetched.procedures[1].definition # fetched.procedures[2].definition
    /\ ExpectedCategories(fetched.procedures[2].definition) = <<1>>
    /\ assessment_results.stored_procedure_analysis.incompatible_features = [cursors |-> 2]

---------------------------------------------------------------------------
(* data types: classes and histogram *)

\* for each spelling of WideTypeList: its histogram bucket, the severity of
\* its issue (NONE: no issue) and, for MEDIUM, the target type and the note,
\* read off the type_mapping literal of the source
ExpectedTypeList ==
    <<<<<<"B","I","G","I","N","T">>, "NONE", "", <<>>>>,
      <<<<"B","I","G","I","N","T">>, "NONE", "", <<>>>>,
      <<<<"B","I","G","I","N","T">>, "NONE", "", <<>>>>,
      <<<<"U","N","I","Q","U","E","I","D","E","N","T","I","F","I","E","R">>, "MEDIUM", "UUID", <<"Requires", "extension">>>>,
      <<<<"U","N","I","Q","U","E","I","D","E","N","T","I","F","I","E","R">>, "MEDIUM", "UUID", <<"Requires", "extension">>>>,
      <<<<"M","O","N","E","Y">>, "MEDIUM", "DECIMAL(19,4)", <<"Requires", "explicit", "mapping">>>>,
      <<<<"M","O","N","E","Y">>, "MEDIUM", "DECIMAL(19,4)", <<"Requires", "explicit", "mapping">>>>,
      <<<<"F","O","O","B","A","R","_","C","U","S","T","O","M","_","T","Y","P","E">>, "HIGH", "", <<>>>>,
      <<<<"F","O","O","B","A","R","_","C","U","S","T","O","M","_","T","Y","P","E">>, "HIGH", "", <<>>>>,
      <<<<"I","N","T">>, "NONE", "", <<>>>>>>

ExpectedType(data_type) ==
    ExpectedTypeList[CHOOSE i \in DOMAIN WideTypeList : WideTypeList[i] = data_type]

TypesAnalyzed == Has(assessment_results, "data_type_analysis")

\* C14: every column falls into exactly one of three classes by its
\* upper-cased type name: not in the table, one HIGH 'Unknown type mapping'
\* issue; in the table with a 'Requires' note, one MEDIUM issue with target
\* type and note; otherwise no issue. Spellings differing in letter case share
\* the class and the histogram bucket.
C14_ThreeWayClassification ==
    TypesAnalyzed =>
        LET rows == fetched.columns
            result == assessment_results.data_type_analysis
            issues == result.compatibility_issues
            flagged == SelectSeq([i \in 1..Len(rows) |-> i],
                                 LAMBDA i : ExpectedType(rows[i].data_type)[2] # "NONE")
            buckets == {ExpectedType(rows[i].data_type)[1] : i \in 1..Len(rows)}
        IN  /\ Len(issues) = Len(flagged)
            /\ \A j \in 1..Len(flagged) :
                   LET row == rows[flagged[j]]
                       expected == ExpectedType(row.data_type)
                   IN  /\ issues[j].column = row.column_name
                       /\ issues[j].type = expected[1]
                       /\ issues[j].severity = expected[2]
                       /\ expected[2] = "HIGH" =>
                              /\ DOMAIN issues[j] = {"table", "column", "type", "issue", "severity"}
                              /\ issues[j].issue = "Unknown type mapping"
                       /\ expected[2] = "MEDIUM" =>
                              /\ DOMAIN issues[j] = {"table", "column", "type", "postgresql_type",
                                                     "note", "severity"}
                              /\ issues[j].postgresql_type = expected[3]
                              /\ issues[j].note = expected[4]
            /\ DOMAIN result.type_usage = buckets
            /\ \A b \in buckets :
                   result.type_usage[b] =
                       Cardinality({i \in 1..Len(rows) : ExpectedType(rows[i].data_type)[1] = b})

\* three columns declared with three different spellings, two of them in one
\* bucket, giving two MEDIUM issues and no other
C14_Witness ==
    /\ TypesAnalyzed
    /\ Len(fetched.columns) = 3
    /\ Cardinality({fetched.columns[i].data_type : i \in 1..3}) = 3
    /\ \E b \in DOMAIN assessment_results.data_type_analysis.type_usage :
           assessment_results.data_type_analysis.type_usage[b] = 2
    /\ Len(assessment_results.data_type_analysis.compatibility_issues) = 2
    /\ \A j \in 1..2 :
           assessment_results.data_type_analysis.compatibility_issues[j].severity = "MEDIUM"

---------------------------------------------------------------------------
(* indexes: findings and notes *)

IndexesAnalyzed == Has(assessment_results, "index_analysis")

\* C15: one finding per input index record, in input order, none filtered
\* (also when migration_notes is empty), so total_indexes is the number of
\* records and the sum of the index_types histogram.
C15_OneFindingPerIndex ==
    IndexesAnalyzed =>
        LET rows == fetched.indexes
            result == assessment_results.index_analysis
        IN  /\ Len(result.detailed_analysis) = Len(rows)
            /\ \A i \in 1..Len(rows) :
                   /\ result.detailed_analysis[i].index_name = rows[i].index_name
                   /\ result.detailed_analysis[i].type = rows[i].type_desc
            /\ result.total_indexes = Len(rows)
            /\ DOMAIN result.index_types = {rows[i].type_desc : i \in 1..Len(rows)}
            /\ \A t \in DOMAIN result.index_types :
                   result.index_types[t] =
                       Cardinality({i \in 1..Len(rows) : rows[i].type_desc = t})
            /\ SumValues(result.index_types) = result.total_indexes

\* two records, the first matching no rule: two findings, the first with
\* empty migration_notes
C15_Witness ==
    /\ IndexesAnalyzed
    /\ Len(fetched.indexes) = 2
    /\ assessment_results.index_analysis.total_indexes = 2
    /\ assessment_results.index_analysis.detailed_analysis[1].migration_notes = <<>>
    /\ assessment_results.index_analysis.detailed_analysis[2].migration_notes # <<>>

\* the notes the four rules ask for, given the physical types that count as
\* columnstore
RuleNotes(row, columnstore) ==
    (IF row.type_desc = "CLUSTERED"
     THEN {<<"Clustered index -> Map to primary key or regular index in PostgreSQL">>}
     ELSE {})
    \cup (IF row.type_desc \in columnstore
          THEN {<<"Columnstore index -> Consider PostgreSQL BRIN or regular B-tree">>}
          ELSE {})
    \cup (IF row.included_columns # None
          THEN {<<"Has included columns -> PostgreSQL supports INCLUDE in indexes (PG11+)">>}
          ELSE {})
    \cup (IF row.fill_factor[1] \in 1..99
          THEN {<<"Fill factor ", row.fill_factor[1], " -> Use FILLFACTOR in PostgreSQL">>}
          ELSE {})

NotesFollowRules(columnstore) ==
    IndexesAnalyzed =>
        \A i \in 1..Len(fetched.indexes) :
            LET notes == assessment_results.index_analysis.detailed_analysis[i].migration_notes
                expected == RuleNotes(fetched.indexes[i], columnstore)
            IN  /\ {notes[k] : k \in 1..Len(notes)} = expected
                /\ Len(notes) = Cardinality(expected)

\* C20: migration_notes holds exactly one note per rule that holds for the
\* record (clustering type, a columnstore type, included columns, fill factor
\* set below 100) and nothing else; an index matching several rules gets all
\* their notes.
C20_OneNotePerMatchingRule ==
    NotesFollowRules({"CLUSTERED COLUMNSTORE", "NONCLUSTERED COLUMNSTORE"})

---------------------------------------------------------------------------
(* migration phases *)

\* C16: the phase list has 3 entries for LOW, the same 6 entries for MEDIUM
\* and for HIGH, and 1 entry (the proof-of-concept gate) for VERY_HIGH; the
\* phase numbers of a list are ascending.
C16_PhasesByComplexityLevel ==
    Has(locals, "migration_phases") =>
        LET level == assessment_results.schema_complexity.complexity_level
            phases == locals.migration_phases
            as(l) == [schema_complexity |-> [complexity_level |-> l]]
        IN  /\ level \in {"LOW", "MEDIUM", "HIGH", "VERY_HIGH"}
            /\ level = "LOW" => Len(phases) = 3
            /\ level \in {"MEDIUM", "HIGH"} =>
                   /\ Len(phases) = 6
                   /\ phases = generate_migration_phases(as("MEDIUM"))
                   /\ phases = generate_migration_phases(as("HIGH"))
                   /\ [i \in 1..6 |-> phases[i].name] =
                          <<"Assessment & Planning", "Schema Conversion", "Code Migration",
                            "Data Migration", "Testing & Validation", "Cutover">>
            /\ level = "VERY_HIGH" =>
                   /\ Len(phases) = 1
                   /\ phases[1].name = "Pre-Migration POC"
            /\ \A i, j \in 1..Len(phases) : i < j => phases[i].phase < phases[j].phase

\* a HIGH assessment with its six phases
C16_Witness ==
    /\ Has(locals, "migration_phases")
    /\ assessment_results.schema_complexity.complexity_level = "HIGH"
    /\ Len(locals.migration_phases) = 6
    /\ locals.migration_phases[6].phase = 6

---------------------------------------------------------------------------
(* generate_assessment_report called from several threads *)

Threads == 1..MaxThreads

\* the sequential call's variables
seqVars == <<db_id, fetched, pc, error, queries, failed, assessment_results, locals, output_file,
             returned>>

\* the statements of one call, in the order they are executed
QuerySequence == <<"db_id", "object_counts", "procedures", "columns", "indexes">>

\* the key each analyzer's result is stored under
ResultKey == <<"", "schema_complexity", "stored_procedure_analysis", "data_type_analysis",
               "index_analysis">>

\* output_file='outputs/migration_readiness.json', and a path of the caller's
DefaultOutputFile == <<"outputs/migration_readiness.json">>
OwnOutputFile(t) == <<"outputs/", t, ".json">>

\* the database a thread assesses: one per database, two databases in turn
DatabaseOf(t) == IF t % 2 = 1 THEN "A" ELSE "B"

\* the rows a statement returns for a database
ResultSet(database, query) ==
    IF database = "A"
    THEN CASE query = "db_id" -> <<<<Some(5)>>>>
           [] query = "object_counts" -> <<SampleCountRow>>
           [] query = "procedures" -> SampleProcedureRows
           [] query = "columns" -> SampleColumnRows
           [] query = "indexes" ->
                  <<[table_name |-> "t", index_name |-> 1, type_desc |-> "CLUSTERED",
                     is_unique |-> FALSE, is_primary_key |-> FALSE, fill_factor |-> Some(0),
                     key_columns |-> "c1 ASC", included_columns |-> None]>>
    ELSE CASE query = "db_id" -> <<<<Some(6)>>>>
           [] query = "object_counts" ->
                  <<[table_count |-> 200, view_count |-> 7, sp_count |-> 125,
                     trigger_count |-> 3, udt_count |-> 2, xml_schema_count |-> 4,
                     clr_assembly_count |-> 1]>>
           [] query = "procedures" -> <<>>
           [] query = "columns" ->
                  <<[table_name |-> "u", column_name |-> 1,
                     data_type |-> <<"b","i","g","i","n","t">>]>>
           [] query = "indexes" ->
                  <<[table_name |-> "u", index_name |-> 1, type_desc |-> "NONCLUSTERED",
                     is_unique |-> FALSE, is_primary_key |-> FALSE, fill_factor |-> Some(90),
                     key_columns |-> "c1 ASC", included_columns |-> Some("c2")]>>

\* variant: one cursor for all assessor objects
CursorOf_ClassLevel(t) == 1

\* self.cursor of the assessor a thread calls
CursorOf(t) == callers[t].assessor

\* row[0] of a row of the given statement
FirstColumn(query, row) ==
    CASE query = "db_id" -> row[1]
      [] query = "object_counts" -> Some(row.table_count)
      [] query = "procedures" -> Some(row.name)
      [] OTHER -> Some(row.table_name)

\* cursor.fetchone(): the next pending row or None
fetchone(cursor) == IF cursor.rows = <<>> THEN None ELSE Some(Head(cursor.rows))

\* the analyzer of a statement applied to the rows fetched
Analyze(query, rows) ==
    CASE query = "object_counts" -> assess_schema_complexity(rows[1])
      [] query = "procedures" -> analyze_stored_procedures(rows)
      [] query = "columns" -> analyze_data_types(rows)
      [] query = "indexes" -> analyze_indexes(rows)

\* score, level and phases added to the dict
Finish(results) ==
    results
        @@ [readiness_score |-> calculate_migration_score(results),
            readiness_level |-> readiness_level(calculate_migration_score(results)),
            migration_phases |-> generate_migration_phases(results)]

\* a thread leaves its call with an exception
ParRaise(t, exception) ==
    callers' = [callers EXCEPT ![t].pc = "raised", ![t].error = exception]

\* self.cursor.execute(...) of the thread's next statement (the connections
\* stay up: a lost connection ends a call as in the sequential run)
ParExecute(t) ==
    /\ callers[t].pc = "execute"
    /\ cursors' = [cursors EXCEPT ![CursorOf(t)] =
                      [query |-> QuerySequence[callers[t].step],
                       rows |-> ResultSet(callers[t].database,
                                          QuerySequence[callers[t].step])]]
    /\ callers' = [callers EXCEPT ![t].pc = "fetch"]
    /\ UNCHANGED <<files, seqVars>>
    /\ UNCHANGED orderVars

\* self.cursor.fetchone() / fetchall() and the use of the rows: whatever is
\* pending on the cursor is taken
ParFetch(t) ==
    /\ callers[t].pc = "fetch"
    /\ LET query == QuerySequence[callers[t].step]
           cursor == cursors[CursorOf(t)]
           one == query \in {"db_id", "object_counts"}
           rows == IF one THEN (IF cursor.rows = <<>> THEN <<>> ELSE <<Head(cursor.rows)>>)
                   ELSE cursor.rows
           next == IF callers[t].step = Len(QuerySequence) THEN "compute" ELSE "execute"
       IN  /\ cursors' = [cursors EXCEPT ![CursorOf(t)].rows =
                             IF one /\ cursor.rows # <<>> THEN Tail(cursor.rows) ELSE <<>>]
           /\ IF query = "db_id"
              THEN IF db_exists(IF fetchone(cursor) = None THEN None
                                ELSE Some(<<FirstColumn(cursor.query, fetchone(cursor)[1])>>))
                   THEN callers' = [callers EXCEPT
                            ![t].pc = next,
                            ![t].step = @ + 1,
                            ![t].assessment_results =
                                [database |-> callers[t].database, assessment_date |-> "now"]]
                   ELSE ParRaise(t, "ValueError")
              ELSE IF (one /\ rows = <<>>) \/ (rows # <<>> /\ cursor.query # query)
                   THEN ParRaise(t, "AttributeError")
                   ELSE callers' = [callers EXCEPT
                            ![t].pc = next,
                            ![t].step = @ + 1,
                            ![t].assessment_results =
                                @ @@ (ResultKey[callers[t].step] :> Analyze(query, rows))]
    /\ UNCHANGED <<files, seqVars>>
    /\ UNCHANGED orderVars

\* calculate_migration_score, generate_migration_phases, the three
\* assignments: local to the thread
ParCompute(t) ==
    /\ callers[t].pc = "compute"
    /\ IF ZeroDivision(callers[t].assessment_results)
       THEN ParRaise(t, "ZeroDivisionError")
       ELSE callers' = [callers EXCEPT ![t].pc = "export",
                                       ![t].assessment_results = Finish(@)]
    /\ UNCHANGED <<cursors, files, seqVars>>
    /\ UNCHANGED orderVars

\* with open(output_file, 'w') as f: json.dump(assessment_results, f, ...),
\* the prints, return assessment_results
ParExportAndReturn(t) ==
    /\ callers[t].pc = "export"
    /\ files' = [path \in DOMAIN files \cup {callers[t].output_file} |->
                    IF path = callers[t].output_file THEN callers[t].assessment_results
                    ELSE files[path]]
    /\ callers' = [callers EXCEPT ![t].pc = "done",
                                  ![t].returned = <<callers[t].assessment_results>>]
    /\ UNCHANGED <<cursors, seqVars>>
    /\ UNCHANGED orderVars

\* the ways the caller can set the threads up: thread 1 uses assessor 1 and the
\* default path; every other thread calls assessor 1 or an assessor of its
\* own, and passes the default path or a path of its own
CallerSetups ==
    {[t \in Threads |->
        [assessor |-> a[t], database |-> DatabaseOf(t), output_file |-> o[t],
         pc |-> "execute", step |-> 1, assessment_results |-> EmptyDict,
         error |-> "none", returned |-> <<>>]]
     : a \in {f \in [Threads -> Threads] : \A t \in Threads : f[t] \in {1, t}},
       o \in {g \in [Threads -> {DefaultOutputFile} \cup {OwnOutputFile(t) : t \in Threads}] :
                 /\ g[1] = DefaultOutputFile
                 /\ \A t \in Threads : g[t] \in {DefaultOutputFile, OwnOutputFile(t)}}}

InitPar ==
    /\ db_id = None
    /\ fetched = EmptyDict
    /\ pc = "idle"
    /\ error = "none"
    /\ queries = <<>>
    /\ failed = {}
    /\ assessment_results = EmptyDict
    /\ locals = EmptyDict
    /\ output_file = <<>>
    /\ returned = <<>>
    /\ callers \in CallerSetups
    /\ cursors = [a \in Threads |-> [query |-> "none", rows |-> <<>>]]
    /\ files = EmptyDict
    /\ NoOrder

NextPar ==
    \/ \E t \in Threads : ParExecute(t)
    \/ \E t \in Threads : ParFetch(t)
    \/ \E t \in Threads : ParCompute(t)
    \/ \E t \in Threads : ParExportAndReturn(t)

SpecPar == InitPar /\ [][NextPar]_vars

\* the report of a database when it is assessed by a call running alone
AloneReport(database) ==
    Finish([database |-> database, assessment_date |-> "now",
            schema_complexity |-> Analyze("object_counts", ResultSet(database, "object_counts")),
            stored_procedure_analysis |-> Analyze("procedures", ResultSet(database, "procedures")),
            data_type_analysis |-> Analyze("columns", ResultSet(database, "columns")),
            index_analysis |-> Analyze("indexes", ResultSet(database, "indexes"))])

\* a thread is as it would be running alone: it raises nothing, and once done
\* it has returned, and its file holds, the report of its database
AsAlone(t) ==
    /\ callers[t].error = "none"
    /\ callers[t].pc = "done" =>
           /\ callers[t].returned = <<AloneReport(callers[t].database)>>
           /\ callers[t].output_file \in DOMAIN files
           /\ files[callers[t].output_file] = AloneReport(callers[t].database)

\* C17 as claimed: parallel assessments never interfere, however the caller
\* runs them (nothing mutable is shared).
C17_ParallelCallsDoNotInterfere == \A t \in DOMAIN callers : AsAlone(t)

\* every thread has an assessor object (connection, cursor) and an output
\* file of its own
SeparateCallers ==
    \A t, u \in DOMAIN callers :
        t # u => /\ callers[t].assessor # callers[u].assessor
                 /\ callers[t].output_file # callers[u].output_file

\* C17 amended: parallel assessments that use separate assessor objects and
\* distinct output files do not interfere: under every interleaving each
\* returns and writes the report it produces when run alone.
C17_SeparateCallersDoNotInterfere ==
    SeparateCallers => \A t \in DOMAIN callers : AsAlone(t)

\* two separate assessments of different databases, both done
C17_Witness ==
    /\ DOMAIN callers # {}
    /\ SeparateCallers
    /\ \A t \in DOMAIN callers : callers[t].pc = "done"
    /\ callers[1].returned # callers[2].returned
    /\ files[callers[1].output_file] # files[callers[2].output_file]

---------------------------------------------------------------------------
(* the phase plan and the rest of the report *)

\* assessment results differing in score, CLR count, procedure and type
\* analyses
PhaseProbes ==
    {r \in ScoreInputs :
        /\ r.schema_complexity.complexity_score \in {Num(0), Num(100)}
        /\ r.schema_complexity.details \in {[tables |-> 0], [tables |-> 0, clr_assemblies |-> 5]}
        /\ r.stored_procedure_analysis.procedures_with_issues
               = r.stored_procedure_analysis.total_procedures
        /\ r.stored_procedure_analysis.total_procedures \in {0, MaxTerm}
        /\ Len(r.data_type_analysis.compatibility_issues)
               = r.data_type_analysis.total_columns_analyzed
        /\ r.data_type_analysis.total_columns_analyzed \in {0, MaxTerm}}

\* C21: the phase plan depends on complexity_level only: every assessment
\* result with the level of the report gets the report's phase list, whatever
\* its score, procedure, type and index analyses.
C21_PhasesDependOnLevelOnly ==
    Has(locals, "migration_phases") =>
        \A r \in PhaseProbes :
            generate_migration_phases(
                [r EXCEPT !.schema_complexity.complexity_level =
                              assessment_results.schema_complexity.complexity_level])
                = locals.migration_phases

\* a LOW report with a flagged procedure and a type issue, and its short plan
C21_Witness ==
    /\ Has(locals, "migration_phases")
    /\ assessment_results.schema_complexity.complexity_level = "LOW"
    /\ assessment_results.stored_procedure_analysis.procedures_with_issues > 0
    /\ assessment_results.data_type_analysis.compatibility_issues # <<>>
    /\ Len(locals.migration_phases) = 3

---------------------------------------------------------------------------
(* order of the steps of generate_assessment_report *)

\* C22: the steps run strictly one after another: the existence check, then
\* schema complexity, stored procedures, data types, indexes, each complete
\* before the next starts; score and phases only after all four analyses; the
\* report is written only after score, level and phases are set.
C22_StepsRunInOrder ==
    /\ Len(queries) <= Len(QuerySequence)
    /\ \A i \in 1..Len(queries) : queries[i] = QuerySequence[i]
    /\ \A i \in 2..Len(queries) :
           /\ db_exists(Some(<<db_id>>))
           /\ i > 2 => Has(assessment_results, ResultKey[i - 1])
    /\ \A i \in 2..Len(QuerySequence) :
           Has(assessment_results, ResultKey[i]) => Len(queries) >= i
    /\ Has(locals, "readiness_score") =>
           \A i \in 2..Len(QuerySequence) : Has(assessment_results, ResultKey[i])
    /\ Has(locals, "migration_phases") => Has(locals, "readiness_score")
    /\ Has(assessment_results, "readiness_score") => Has(locals, "migration_phases")
    /\ output_file # <<>> =>
           /\ Has(output_file[1], "readiness_score")
           /\ Has(output_file[1], "readiness_level")
           /\ Has(output_file[1], "migration_phases")
           /\ \A i \in 2..Len(QuerySequence) : Has(output_file[1], ResultKey[i])
    /\ returned # <<>> => output_file # <<>>

\* a call that has gone through all its steps
C22_Witness ==
    /\ pc = "done"
    /\ queries = QuerySequence
    /\ output_file # <<>>
    /\ returned = output_file

---------------------------------------------------------------------------
(* bounds of the readiness score in whole reports *)

ScoreComputed == Has(locals, "readiness_score")

\* the four deductions of a report, as fractions
PenaltyOfComplexity ==
    LET cs == assessment_results.schema_complexity.complexity_score
    IN  Rat(cs.num * 3, cs.den * 10)

PenaltyOfProcedures ==
    LET sp == assessment_results.stored_procedure_analysis
    IN  IF sp.total_procedures = 0 THEN Num(0)
        ELSE Rat(sp.procedures_with_issues * 20, sp.total_procedures)

PenaltyOfTypes ==
    LET dt == assessment_results.data_type_analysis
    IN  IF dt.total_columns_analyzed = 0 THEN Num(0)
        ELSE Rat(Len(dt.compatibility_issues) * 15, dt.total_columns_analyzed)

PenaltyOfClr ==
    Num(Min2(assessment_results.schema_complexity.details.clr_assemblies * 10, 20))

\* C23: in every report readiness_score >= 15: the four penalties are at most
\* 30, 20, 15 and 20, so max(score, 0) never changes the value.
C23_ScoreAtLeastFifteen ==
    ScoreComputed =>
        /\ RLe(PenaltyOfComplexity, Num(30))
        /\ RLe(PenaltyOfProcedures, Num(20))
        /\ RLe(PenaltyOfTypes, Num(15))
        /\ RLe(PenaltyOfClr, Num(20))
        /\ RLe(Num(15), locals.readiness_score)
        /\ locals.readiness_score =
               RSub(RSub(RSub(RSub(Num(100), PenaltyOfComplexity), PenaltyOfProcedures),
                         PenaltyOfTypes), PenaltyOfClr)

\* the four penalties at their bounds: the score is 15
C23_Witness ==
    /\ ScoreComputed
    /\ PenaltyOfComplexity = Num(30)
    /\ PenaltyOfProcedures = Num(20)
    /\ PenaltyOfTypes = Num(15)
    /\ PenaltyOfClr = Num(20)
    /\ locals.readiness_score = Num(15)

\* the fetched procedures that match at least one category
FlaggedProcedures ==
    {i \in 1..Len(fetched.procedures) :
        ExpectedCategories(fetched.procedures[i].definition) # <<>>}

\* C24: in every report total_procedures equals procedures_with_issues, so
\* the procedure penalty is 0 when no procedure is flagged and exactly 20 as
\* soon as one is, however many unflagged procedures there are.
C24_ProcedurePenaltyIsAllOrNothing ==
    /\ ProceduresAnalyzed =>
           /\ assessment_results.stored_procedure_analysis.total_procedures
                  = assessment_results.stored_procedure_analysis.procedures_with_issues
           /\ assessment_results.stored_procedure_analysis.procedures_with_issues
                  = Cardinality(FlaggedProcedures)
    /\ ScoreComputed =>
           LET P == IF FlaggedProcedures = {} THEN 0 ELSE 20
           IN  /\ PenaltyOfProcedures = Num(P)
               /\ locals.readiness_score =
                      RSub(RSub(RSub(RSub(Num(100), PenaltyOfComplexity), Num(P)),
                                PenaltyOfTypes), PenaltyOfClr)

\* one flagged procedure after an unflagged one: the penalty is 20
C24_Witness ==
    /\ ScoreComputed
    /\ Len(fetched.procedures) = 2
    /\ FlaggedProcedures = {2}
    /\ PenaltyOfProcedures = Num(20)

RECURSIVE SumOver(_, _)
\* the sum of a histogram's counts over the given keys
SumOver(counter, keys) ==
    IF keys = {} THEN 0
    ELSE LET k == CHOOSE x \in keys : TRUE
         IN  counter[k] + SumOver(counter, keys \ {k})

\* C25: total_columns_analyzed is the number of column rows and the sum of
\* the type_usage histogram; each column gives at most one compatibility
\* issue, so the issues are at most the columns and the type penalty is at
\* most 15.
C25_IssuesAtMostColumns ==
    TypesAnalyzed =>
        LET rows == fetched.columns
            result == assessment_results.data_type_analysis
            issues == result.compatibility_issues
        IN  /\ result.total_columns_analyzed = Len(rows)
            /\ result.total_columns_analyzed
                   = SumOver(result.type_usage, DOMAIN result.type_usage)
            /\ \A i \in 1..Len(rows) :
                   Cardinality({j \in 1..Len(issues) :
                                   issues[j].column = rows[i].column_name}) <= 1
            /\ Len(issues) <= result.total_columns_analyzed
            /\ RLe(PenaltyOfTypes, Num(15))

\* every column of three flagged in one way or the other: the penalty is 15
C25_Witness ==
    /\ TypesAnalyzed
    /\ Len(fetched.columns) = 3
    /\ Len(assessment_results.data_type_analysis.compatibility_issues) = 3
    /\ \E j \in 1..3 :
           assessment_results.data_type_analysis.compatibility_issues[j].severity = "HIGH"
    /\ \E j \in 1..3 :
           assessment_results.data_type_analysis.compatibility_issues[j].severity = "MEDIUM"
    /\ PenaltyOfTypes = Num(15)

\* C26: with zero CLR assemblies the report has complexity_score <= 80 and
\* readiness_score >= 41, so readiness_level is never
\* REQUIRES_SIGNIFICANT_EFFORT; that level needs at least one CLR assembly and
\* a complexity_score of at least 50.
C26_SignificantEffortNeedsClr ==
    ScoreComputed =>
        LET clr == fetched.object_counts.clr_assembly_count
            cs == assessment_results.schema_complexity.complexity_score
            level == readiness_level(locals.readiness_score)
        IN  /\ clr = 0 =>
                   /\ RLe(cs, Num(80))
                   /\ RLe(Num(41), locals.readiness_score)
                   /\ level # "REQUIRES_SIGNIFICANT_EFFORT"
            /\ level = "REQUIRES_SIGNIFICANT_EFFORT" =>
                   /\ clr >= 1
                   /\ RLe(Num(50), cs)
            /\ Has(assessment_results, "readiness_level") =>
                   assessment_results.readiness_level = level

\* no CLR assembly, complexity 80, every procedure and column flagged: 41
C26_Witness ==
    /\ Has(assessment_results, "readiness_level")
    /\ fetched.object_counts.clr_assembly_count = 0
    /\ assessment_results.schema_complexity.complexity_score = Num(80)
    /\ assessment_results.readiness_score = Num(41)
    /\ assessment_results.readiness_level = "CHALLENGING"

\* a finished report of complexity 80 with no CLR assembly, no flagged
\* procedure and no type issue
C27_Case ==
    /\ Has(assessment_results, "readiness_level")
    /\ assessment_results.schema_complexity.complexity_score = Num(80)
    /\ fetched.object_counts.clr_assembly_count = 0
    /\ assessment_results.stored_procedure_analysis.procedures_with_issues = 0
    /\ assessment_results.data_type_analysis.compatibility_issues = <<>>

\* C27: the two tiers are not tied together: a report of complexity 80 with
\* no CLR assembly, no flagged procedure and no type issue has
\* complexity_level VERY_HIGH, the single proof-of-concept phase, readiness
\* 76 and readiness_level READY.
C27_VeryHighYetReady ==
    C27_Case =>
        /\ assessment_results.schema_complexity.complexity_level = "VERY_HIGH"
        /\ Len(assessment_results.migration_phases) = 1
        /\ assessment_results.migration_phases[1].name = "Pre-Migration POC"
        /\ assessment_results.readiness_score = Num(76)
        /\ assessment_results.readiness_level = "READY"

\* such a report has been returned
C27_Witness ==
    /\ C27_Case
    /\ pc = "done"
    /\ returned[1].schema_complexity.complexity_level = "VERY_HIGH"
    /\ returned[1].readiness_level = "READY"

---------------------------------------------------------------------------
(* the fill-factor note *)

\* the fill-factor notes among the notes of a finding (the only notes made of
\* three parts)
FillNotes(notes) == {k \in 1..Len(notes) : Len(notes[k]) = 3}

\* C28: a fill factor of 0 or a missing one gets no fill-factor note, every
\* fill factor from 1 to 99 gets the note, and 100 gets none.
C28_FillFactorNote ==
    IndexesAnalyzed =>
        \A i \in 1..Len(fetched.indexes) :
            LET ff == fetched.indexes[i].fill_factor
                notes == assessment_results.index_analysis.detailed_analysis[i].migration_notes
            IN  IF ff # None /\ ff[1] >= 1 /\ ff[1] <= 99
                THEN /\ Cardinality(FillNotes(notes)) = 1
                     /\ \A k \in FillNotes(notes) :
                            notes[k] = <<"Fill factor ", ff[1], " -> Use FILLFACTOR in PostgreSQL">>
                ELSE FillNotes(notes) = {}

\* an index with fill factor 0 and included columns: one note, not the
\* fill-factor note
C28_Witness ==
    /\ IndexesAnalyzed
    /\ Len(fetched.indexes) = 1
    /\ fetched.indexes[1].fill_factor = Some(0)
    /\ Len(assessment_results.index_analysis.detailed_analysis[1].migration_notes) = 1
    /\ FillNotes(assessment_results.index_analysis.detailed_analysis[1].migration_notes) = {}

---------------------------------------------------------------------------
(* generate_migration_order (use_case_9_migration.py) *)

\* A table name is a number.  The table query keeps user tables only and groups
\* by the row count of a partition, so a partitioned table can come back in
\* two rows; the foreign-key query is SELECT DISTINCT, so its rows are a set,
\* and only its child is required to be a user table, so a parent can be a
\* table the table query does not list.

TableNames == 1..MaxTables

\* n tables in the order of the query (ORDER BY p.rows DESC); size_mb is
\* carried along exactly as row_count is and is left out
TableRows(n) ==
    [i \in 1..n |-> [schema_name |-> "dbo", table_name |-> i, row_count |-> MaxTables + 1 - i]]

\* the same, table 1 being partitioned: a second row for it further down
PartitionedRows(n) ==
    Append(TableRows(n), [schema_name |-> "dbo", table_name |-> 1, row_count |-> 0])

TableInputs ==
    {TableRows(n) : n \in 0..MaxTables} \cup {PartitionedRows(n) : n \in 1..MaxTables}

FkRows ==
    [child_schema : {"dbo"}, child_table : TableNames,
     parent_schema : {"dbo"}, parent_table : TableNames]

RECURSIVE SubsetsUpTo(_, _)
SubsetsUpTo(S, k) ==
    IF k = 0 THEN {{}}
    ELSE LET smaller == SubsetsUpTo(S, k - 1)
         IN  smaller \cup {x \cup {e} : x \in smaller, e \in S}

FkInputs == SubsetsUpTo(FkRows, MaxFks)

\* f"{schema}.{table}"
TableName(schema, table) == <<schema, ".", table>>

\* the keys of a dict kept as its items in insertion order
Keys(dict) == {dict[i].table : i \in 1..Len(dict)}

\* the first loop: dict[key] = value puts a new key at the end and lets an
\* old key keep its place, so the keys stand in the order of their first row
\* and each carries the values of its last row.  depends_on starts empty.
InsertTables(rows) ==
    LET NameAt(i) == TableName(rows[i].schema_name, rows[i].table_name)
        IsFirst(i) == \A j \in 1..(i - 1) : NameAt(j) # NameAt(i)
        LastOf(i) == CHOOSE j \in i..Len(rows) :
                        /\ NameAt(j) = NameAt(i)
                        /\ \A k \in (j + 1)..Len(rows) : NameAt(k) # NameAt(i)
        firsts == SelectSeq([i \in 1..Len(rows) |-> i], IsFirst)
    IN  [n \in 1..Len(firsts) |->
            [table |-> NameAt(firsts[n]), depends_on |-> {},
             row_count |-> rows[LastOf(firsts[n])].row_count]]

\* the second loop, for one child: the parents appended to its depends_on.
\* The rows are distinct and the list is only measured and tested for
\* membership, so it is kept as a set.
DependsOn(dict, fks, table) ==
    {TableName(fk.parent_schema, fk.parent_table) :
        fk \in {r \in fks :
                  LET child == TableName(r.child_schema, r.child_table)
                      parent == TableName(r.parent_schema, r.parent_table)
                  IN  /\ child = table
                      /\ child \in Keys(dict)
                      /\ parent \in Keys(dict)
                      /\ child # parent}}

\* the second loop as a whole
AddParents(dict, fks) ==
    [i \in 1..Len(dict) |->
        [dict[i] EXCEPT !.depends_on = DependsOn(dict, fks, dict[i].table)]]

\* variant: every unprocessed table is ready
Ready_Always(info, done) == TRUE

\* all(dep in processed for dep in info["depends_on"])
Ready(info, done) == info.depends_on \subseteq done

WaveEntry(info) ==
    [table |-> info.table, row_count |-> info.row_count,
     dependencies |-> Cardinality(info.depends_on)]

CircularNote == "Circular dependency - disable FK constraints"

NotedEntry(info) ==
    [table |-> info.table, row_count |-> info.row_count,
     dependencies |-> Cardinality(info.depends_on), note |-> CircularNote]

\* the first for loop of a pass
ReadyWave(dict, done) ==
    LET Test(info) == info.table \notin done /\ Ready(info, done)
        ready == SelectSeq(dict, Test)
    IN  [i \in 1..Len(ready) |-> WaveEntry(ready[i])]

\* the for loop under "if not current_wave"
CircularWave(dict, done) ==
    LET Test(info) == info.table \notin done
        rest == SelectSeq(dict, Test)
    IN  [i \in 1..Len(rest) |-> NotedEntry(rest[i])]

\* variant: no fallback when no table is ready
CurrentWave_NoFallback(dict, done) == ReadyWave(dict, done)

\* current_wave as it stands at line 288
CurrentWave(dict, done) ==
    IF ReadyWave(dict, done) = <<>> THEN CircularWave(dict, done) ELSE ReadyWave(dict, done)

WaveTables(wave) == {wave[i].table : i \in 1..Len(wave)}

\* lines 229-244: both queries answer
ReadTables ==
    /\ order_pc = "query"
    /\ fk_df' \in FkInputs
    /\ tables_df' \in TableInputs
    /\ order_pc' = "build"
    /\ UNCHANGED <<dependencies, migration_waves, processed, seqVars, parVars>>

\* lines 247-254
BuildDependencies ==
    /\ order_pc = "build"
    /\ dependencies' = InsertTables(tables_df)
    /\ order_pc' = "foreign_keys"
    /\ UNCHANGED <<tables_df, fk_df, migration_waves, processed, seqVars, parVars>>

\* lines 256-263
AddForeignKeys ==
    /\ order_pc = "foreign_keys"
    /\ dependencies' = AddParents(dependencies, fk_df)
    /\ migration_waves' = <<>>
    /\ processed' = {}
    /\ order_pc' = "loop"
    /\ UNCHANGED <<tables_df, fk_df, seqVars, parVars>>

\* one pass of the while loop, lines 265-289
WavePass ==
    /\ order_pc = "loop"
    /\ Cardinality(processed) < Len(dependencies)
    /\ LET current_wave == CurrentWave(dependencies, processed)
       IN  /\ migration_waves' = Append(migration_waves, current_wave)
           /\ processed' = processed \cup WaveTables(current_wave)
    /\ UNCHANGED <<tables_df, fk_df, dependencies, order_pc, seqVars, parVars>>

\* the loop condition fails, line 291
ReturnWaves ==
    /\ order_pc = "loop"
    /\ ~(Cardinality(processed) < Len(dependencies))
    /\ order_pc' = "returned"
    /\ UNCHANGED <<tables_df, fk_df, dependencies, migration_waves, processed, seqVars, parVars>>

InitOrder ==
    /\ db_id = None
    /\ fetched = EmptyDict
    /\ pc = "idle"
    /\ error = "none"
    /\ queries = <<>>
    /\ failed = {}
    /\ assessment_results = EmptyDict
    /\ locals = EmptyDict
    /\ output_file = <<>>
    /\ returned = <<>>
    /\ NoCallers
    /\ tables_df = <<>>
    /\ fk_df = {}
    /\ dependencies = <<>>
    /\ migration_waves = <<>>
    /\ processed = {}
    /\ order_pc = "query"

NextOrder ==
    \/ ReadTables
    \/ BuildDependencies
    \/ AddForeignKeys
    \/ WavePass
    \/ ReturnWaves

SpecOrder == InitOrder /\ [][NextOrder]_vars

\* the function runs on: a single thread executing straight-line code and a
\* loop is never suspended for ever
SpecOrderFair == SpecOrder /\ WF_vars(NextOrder)

OrderReturned == order_pc = "returned"

\* the tables placed in the waves before wave w
EarlierTables(w) == UNION {WaveTables(migration_waves[v]) : v \in 1..(w - 1)}

\* the places where a table stands in the waves
PlacesOf(table) ==
    {<<w, i>> \in (1..Len(migration_waves)) \X (1..MaxTables + 1) :
        i <= Len(migration_waves[w]) /\ migration_waves[w][i].table = table}

Noted(wave) == \E i \in 1..Len(wave) : "note" \in DOMAIN wave[i]

\* the foreign keys form a cycle among the listed tables
SomeCycle ==
    \E i \in 1..Len(dependencies) :
        LET RECURSIVE Reach(_, _)
            Reach(seen, k) ==
                IF k = 0 THEN seen
                ELSE Reach(seen \cup UNION {dependencies[j].depends_on :
                                j \in {m \in 1..Len(dependencies) : dependencies[m].table \in seen}}, k - 1)
        IN  dependencies[i].table \in Reach(dependencies[i].depends_on, MaxTables)

\* C29: generate_migration_order terminates for every finite set of tables
\* and foreign keys, cyclic ones too: every pass of the wave loop puts at
\* least one unprocessed table in its wave, and on return every table stands
\* in exactly one wave and no wave is empty.
C29_OrderTerminates ==
    /\ <>OrderReturned
    /\ [][migration_waves' # migration_waves =>
            /\ Len(migration_waves') = Len(migration_waves) + 1
            /\ WaveTables(migration_waves'[Len(migration_waves')]) \ processed # {}
            /\ processed' = processed \cup WaveTables(migration_waves'[Len(migration_waves')])]_vars
    /\ [](OrderReturned =>
            /\ \A table \in Keys(dependencies) : Cardinality(PlacesOf(table)) = 1
            /\ \A w \in 1..Len(migration_waves) : migration_waves[w] # <<>>)

\* a free table, then three tables in a cycle: returned in two waves
C29_Witness ==
    /\ OrderReturned
    /\ SomeCycle
    /\ Len(dependencies) = 4
    /\ Len(migration_waves) = 2
    /\ Len(migration_waves[1]) = 1
    /\ Len(migration_waves[2]) = 3

\* the listed parents of a table according to the foreign-key rows
ListedParents(table) == DependsOn(dependencies, fk_df, table)

\* every table a table references, listed or not, itself excluded
AllParents(table) ==
    {TableName(fk.parent_schema, fk.parent_table) :
        fk \in {r \in fk_df : /\ TableName(r.child_schema, r.child_table) = table
                              /\ TableName(r.parent_schema, r.parent_table) # table}}

\* a noted wave comes only when no remaining table had all its parents
\* processed, holds every remaining table, and is the last wave
NotedWavesAreLast ==
    \A w \in 1..Len(migration_waves) :
        Noted(migration_waves[w]) =>
            /\ \A i \in 1..Len(dependencies) :
                   dependencies[i].table \notin EarlierTables(w) =>
                       ~(ListedParents(dependencies[i].table) \subseteq EarlierTables(w))
            /\ WaveTables(migration_waves[w]) = Keys(dependencies) \ EarlierTables(w)
            /\ \A i \in 1..Len(migration_waves[w]) : "note" \in DOMAIN migration_waves[w][i]
            /\ w = Len(migration_waves)

\* C30 as stated: in the returned waves every table of a wave without the
\* circular-dependency note has all the tables it references by foreign key,
\* itself excluded, in strictly earlier waves; a noted wave comes only when
\* no unprocessed table has all its parents processed, holds every remaining
\* table and is the last wave.
C30_ParentsComeEarlier ==
    OrderReturned =>
        /\ \A w \in 1..Len(migration_waves) :
               ~Noted(migration_waves[w]) =>
                   \A table \in WaveTables(migration_waves[w]) :
                       AllParents(table) \subseteq EarlierTables(w)
        /\ NotedWavesAreLast

\* C30, amended: in the returned waves every table of a wave without the
\* circular-dependency note has all the tables it references by foreign key
\* that are themselves in the table list, itself excluded, in strictly
\* earlier waves; a noted wave comes only when no unprocessed table has all
\* its listed parents processed, holds every remaining table and is the last
\* wave.
C30_ListedParentsComeEarlier ==
    OrderReturned =>
        /\ \A w \in 1..Len(migration_waves) :
               ~Noted(migration_waves[w]) =>
                   \A table \in WaveTables(migration_waves[w]) :
                       ListedParents(table) \subseteq EarlierTables(w)
        /\ NotedWavesAreLast

\* a table, then a child of it, then two tables referencing each other:
\* two waves without the note, and the noted wave last
C30_Witness ==
    /\ OrderReturned
    /\ Len(migration_waves) = 3
    /\ ~Noted(migration_waves[1])
    /\ ~Noted(migration_waves[2])
    /\ \E table \in WaveTables(migration_waves[2]) : ListedParents(table) # {}
    /\ Noted(migration_waves[3])
    /\ Len(migration_waves[3]) = 2

====
